---- MODULE Spec2Model ----
(***************************************************************************)
(* Plant watering swarm: the watering protocol (protocol.ts), the robot    *)
(* machine and robot loop (robot.ts), the plant machine and plant loop     *)
(* (plant.ts), over an append-only event log per protocol instance.        *)
(*                                                                         *)
(* Positions are points of the integer lattice; the distances the code     *)
(* computes with Math.sqrt are compared through their squares, which is    *)
(* exact for these inputs.  One totally ordered event sequence is kept per *)
(* protocol instance; every agent folds a prefix of it.                    *)
(***************************************************************************)
EXTENDS Integers, Sequences, FiniteSets, TLC

\* ------------------------------------------------------------------ bounds

\* number of request ids the plant may generate
MaxReq == 2
\* number of events appended to an instance in FoldSpec
MaxAppend == 3
\* number of events of an instance a runner may lag behind when it yields
MaxLag == 1
\* number of offers an instance holds at the start of SelectSpec
MaxBids == 2
\* number of 1 s sleeps of the plant's main loop in PlantSpec
MaxTicks == 54
\* number of 1 s checks of the presence tracker in PresenceSpec
MaxChecks == 125

\* ------------------------------------------------------- program constants

VELOCITY == 10
ENDURANCE == 500
TickMs == 1000
RequestLevel == 50
\* findIds: the period of its check and the age at which an id is dropped
CheckMs == 1000
GoneMs == 60000

Reqs == 1..MaxReq
Robots == {"r1", "r2"}
PlantId == "p1"
None == 0

Pos(x, y) == [x |-> x, y |-> y]

\* ------------------------------------------------------------- position.ts

Abs(n) == IF n < 0 THEN -n ELSE n

\* Position.direction: the vector from a to b
Direction(a, b) == [x |-> b.x - a.x, y |-> b.y - a.y]

\* Position.add
PosAdd(p, v) == [x |-> p.x + v.x, y |-> p.y + v.y]

\* Vec.length() squared
Len2(v) == v.x * v.x + v.y * v.y

\* Vec.length() < c for an integer c >= 0, without leaving 32 bits
LenLess(v, c) ==
  IF Abs(v.x) >= c \/ Abs(v.y) >= c THEN FALSE
  ELSE IF Abs(v.x) + Abs(v.y) < c THEN TRUE
  ELSE Len2(v) < c * c

\* Vec.length() of v is less than Vec.length() of w
ShorterThan(v, w) == Len2(v) < Len2(w)

\* the integer square root
ISqrt(n) == CHOOSE r \in 0..n : r * r <= n /\ n < (r + 1) * (r + 1)

\* Vec.normalize().scale(f): only taken for length >= VELOCITY, where
\* Math.max(0.1, length) is the length
NormalizeScale(v, f) ==
  LET len == ISqrt(Len2(v)) IN [x |-> (v.x * f) \div len, y |-> (v.y * f) \div len]

\* ------------------------------------------------------------- protocol.ts

PROTOCOL ==
  { [source |-> "initial", target |-> "requested", cmd |-> "request", logType |-> <<"request">>, role |-> "plant"],
    [source |-> "requested", target |-> "requested", cmd |-> "offer", logType |-> <<"offer">>, role |-> "robot"],
    [source |-> "requested", target |-> "assigned", cmd |-> "assign", logType |-> <<"assign">>, role |-> "plant"],
    [source |-> "requested", target |-> "failed", cmd |-> "fail", logType |-> <<"fail">>, role |-> "robot"],
    [source |-> "assigned", target |-> "moving", cmd |-> "start", logType |-> <<"accept">>, role |-> "robot"],
    [source |-> "assigned", target |-> "failed", cmd |-> "fail2", logType |-> <<"fail2">>, role |-> "plant"],
    [source |-> "moving", target |-> "moving", cmd |-> "move", logType |-> <<"move">>, role |-> "robot"],
    [source |-> "moving", target |-> "done", cmd |-> "done", logType |-> <<"finish">>, role |-> "robot"],
    [source |-> "moving", target |-> "failed", cmd |-> "fail3", logType |-> <<"fail3">>, role |-> "robot"] }

ProtocolInitial == "initial"

StateNames == {"initial", "requested", "assigned", "moving", "done", "failed"}

\* Event.All
EventTypes == {"request", "offer", "assign", "accept", "move", "finish", "fail", "fail2", "fail3"}

\* the payloads of the events
RequestEv(plantId, position, reqId) ==
  [type |-> "request", plantId |-> plantId, position |-> position, reqId |-> reqId]
OfferEv(robotId, position) == [type |-> "offer", robotId |-> robotId, position |-> position]
AssignEv(robotId) == [type |-> "assign", robotId |-> robotId]
AcceptEv(position) == [type |-> "accept", position |-> position]
MoveEv(position) == [type |-> "move", position |-> position]
FinishEv(plantId) == [type |-> "finish", plantId |-> plantId]
FailEv(robotId) == [type |-> "fail", robotId |-> robotId]
Fail2Ev(robotId) == [type |-> "fail2", robotId |-> robotId]
Fail3Ev(robotId) == [type |-> "fail3", robotId |-> robotId]

\* an event of the log: the payload of type `type`, and as meta the time of
\* publication and the agent that published it
Event(payload, type, t, by) == [type |-> type, payload |-> payload, time |-> t, by |-> by]

\* ---------------------------------------------------------------- robot.ts

\* RobotMachine with the log type of `start` named after the command and
\* without the command fail3
RobotCommandsSlip(name) ==
  CASE name = "requested" -> { [cmd |-> "offer", logType |-> <<"offer">>],
                               [cmd |-> "fail", logType |-> <<"fail">>] }
    [] name = "assigned" -> { [cmd |-> "start", logType |-> <<"start">>] }
    [] name = "moving" -> { [cmd |-> "move", logType |-> <<"move">>],
                            [cmd |-> "done", logType |-> <<"finish">>] }
    [] OTHER -> {}

\* the commands designed on each state of RobotMachine
RobotCommands(name) ==
  CASE name = "requested" -> { [cmd |-> "offer", logType |-> <<"offer">>],
                               [cmd |-> "fail", logType |-> <<"fail">>] }
    [] name = "assigned" -> { [cmd |-> "start", logType |-> <<"accept">>] }
    [] name = "moving" -> { [cmd |-> "move", logType |-> <<"move">>],
                            [cmd |-> "done", logType |-> <<"finish">>],
                            [cmd |-> "fail3", logType |-> <<"fail3">>] }
    [] OTHER -> {}

\* RobotMachine without the reaction of requested to fail
RobotReactionsSlip ==
  { [source |-> "initial", type |-> "request", target |-> "requested"],
    [source |-> "requested", type |-> "offer", target |-> "requested"],
    [source |-> "requested", type |-> "assign", target |-> "assigned"],
    [source |-> "assigned", type |-> "accept", target |-> "moving"],
    [source |-> "assigned", type |-> "fail2", target |-> "failed"],
    [source |-> "moving", type |-> "move", target |-> "moving"],
    [source |-> "moving", type |-> "finish", target |-> "done"],
    [source |-> "moving", type |-> "fail3", target |-> "failed"] }

\* the reactions registered on RobotMachine: state, event type, next state
RobotReactions ==
  { [source |-> "initial", type |-> "request", target |-> "requested"],
    [source |-> "requested", type |-> "offer", target |-> "requested"],
    [source |-> "requested", type |-> "assign", target |-> "assigned"],
    [source |-> "requested", type |-> "fail", target |-> "failed"],
    [source |-> "assigned", type |-> "accept", target |-> "moving"],
    [source |-> "assigned", type |-> "fail2", target |-> "failed"],
    [source |-> "moving", type |-> "move", target |-> "moving"],
    [source |-> "moving", type |-> "finish", target |-> "done"],
    [source |-> "moving", type |-> "fail3", target |-> "failed"] }

RobotInitial == [name |-> "initial"]

\* reducers of the robot that put a new bid in front of the bid list
RobotReducePrepend(s, e) ==
  CASE s.name = "initial" /\ e.type = "request" ->
         [name |-> "requested", plantId |-> e.payload.plantId, plantPos |-> e.payload.position, robots |-> <<>>]
    [] s.name = "requested" /\ e.type = "offer" ->
         [s EXCEPT !.robots = <<e.payload.robotId>> \o @]
    [] s.name = "requested" /\ e.type = "assign" ->
         [name |-> "assigned", plantId |-> s.plantId, plantPos |-> s.plantPos, robotId |-> e.payload.robotId]
    [] s.name = "requested" /\ e.type = "fail" -> [name |-> "failed"]
    [] s.name = "assigned" /\ e.type = "accept" ->
         [name |-> "moving", plantId |-> s.plantId, plantPos |-> s.plantPos,
          robotId |-> s.robotId, robotPos |-> e.payload.position]
    [] s.name = "assigned" /\ e.type = "fail2" -> [name |-> "failed"]
    [] s.name = "moving" /\ e.type = "move" -> [s EXCEPT !.robotPos = e.payload.position]
    [] s.name = "moving" /\ e.type = "finish" -> [name |-> "done", robot |-> s.robotPos]
    [] s.name = "moving" /\ e.type = "fail3" -> [name |-> "failed"]

\* the reducers of the robot's reactions
RobotReduce(s, e) ==
  CASE s.name = "initial" /\ e.type = "request" ->
         [name |-> "requested", plantId |-> e.payload.plantId, plantPos |-> e.payload.position, robots |-> <<>>]
    [] s.name = "requested" /\ e.type = "offer" ->
         [s EXCEPT !.robots = Append(@, e.payload.robotId)]
    [] s.name = "requested" /\ e.type = "assign" ->
         [name |-> "assigned", plantId |-> s.plantId, plantPos |-> s.plantPos, robotId |-> e.payload.robotId]
    [] s.name = "requested" /\ e.type = "fail" -> [name |-> "failed"]
    [] s.name = "assigned" /\ e.type = "accept" ->
         [name |-> "moving", plantId |-> s.plantId, plantPos |-> s.plantPos,
          robotId |-> s.robotId, robotPos |-> e.payload.position]
    [] s.name = "assigned" /\ e.type = "fail2" -> [name |-> "failed"]
    [] s.name = "moving" /\ e.type = "move" -> [s EXCEPT !.robotPos = e.payload.position]
    [] s.name = "moving" /\ e.type = "finish" -> [name |-> "done", robot |-> s.robotPos]
    [] s.name = "moving" /\ e.type = "fail3" -> [name |-> "failed"]

\* does the robot machine react to e in state s
RobotReacts(s, e) == \E r \in RobotReactions : r.source = s.name /\ r.type = e.type

\* a fold that starts the instance over on a request event
RobotReactRestart(s, e) ==
  IF RobotReacts(s, e) THEN RobotReduce(s, e)
  ELSE IF e.type = "request" THEN RobotReduce(RobotInitial, e)
  ELSE s

\* a fold for which an event without a reaction is fatal
RobotReactFatal(s, e) ==
  IF RobotReacts(s, e) THEN RobotReduce(s, e) ELSE [name |-> "failed"]

\* one step of the robot's fold: an event without a reaction is ignored
RobotReact(s, e) == IF RobotReacts(s, e) THEN RobotReduce(s, e) ELSE s

RECURSIVE RobotFold(_)
RobotFold(evs) ==
  IF evs = <<>> THEN RobotInitial
  ELSE RobotReact(RobotFold(SubSeq(evs, 1, Len(evs) - 1)), evs[Len(evs)])

\* ---------------------------------------------------------------- plant.ts

\* the commands designed on each state of PlantMachine
PlantCommands(name) ==
  CASE name = "initial" -> { [cmd |-> "request", logType |-> <<"request">>] }
    [] name = "requested" -> { [cmd |-> "assign", logType |-> <<"assign">>] }
    [] OTHER -> {}

\* the reactions registered on PlantMachine
PlantReactions ==
  { [source |-> "initial", type |-> "request", target |-> "requested"],
    [source |-> "requested", type |-> "offer", target |-> "requested"],
    [source |-> "requested", type |-> "assign", target |-> "assigned"],
    [source |-> "requested", type |-> "fail", target |-> "failed"],
    [source |-> "assigned", type |-> "accept", target |-> "moving"],
    [source |-> "assigned", type |-> "fail2", target |-> "failed"],
    [source |-> "moving", type |-> "move", target |-> "moving"],
    [source |-> "moving", type |-> "finish", target |-> "done"] }

PlantInitial == [name |-> "initial"]

\* reducers that record the plant as the bidder of an offer
PlantReduceSlip(s, e) ==
  CASE s.name = "initial" /\ e.type = "request" ->
         [name |-> "requested", plantId |-> e.payload.plantId, position |-> e.payload.position,
          reqId |-> e.payload.reqId, robots |-> <<>>]
    [] s.name = "requested" /\ e.type = "offer" ->
         [s EXCEPT !.robots = Append(@, [id |-> s.plantId, pos |-> e.payload.position])]
    [] s.name = "requested" /\ e.type = "assign" ->
         [name |-> "assigned", plantId |-> s.plantId, position |-> s.position, robotId |-> e.payload.robotId]
    [] s.name = "requested" /\ e.type = "fail" -> [name |-> "failed"]
    [] s.name = "assigned" /\ e.type = "accept" ->
         [name |-> "moving", plantId |-> s.plantId, position |-> s.position,
          robotId |-> s.robotId, robot |-> e.payload.position]
    [] s.name = "assigned" /\ e.type = "fail2" -> [name |-> "failed"]
    [] s.name = "moving" /\ e.type = "move" -> [s EXCEPT !.robot = e.payload.position]
    [] s.name = "moving" /\ e.type = "finish" -> [name |-> "done", when |-> e.time]

\* reducers of the plant that list a robot once, whatever it offers again
PlantReduceOnce(s, e) ==
  CASE s.name = "initial" /\ e.type = "request" ->
         [name |-> "requested", plantId |-> e.payload.plantId, position |-> e.payload.position,
          reqId |-> e.payload.reqId, robots |-> <<>>]
    [] s.name = "requested" /\ e.type = "offer" ->
         IF \E i \in 1..Len(s.robots) : s.robots[i].id = e.payload.robotId THEN s
         ELSE [s EXCEPT !.robots = Append(@, [id |-> e.payload.robotId, pos |-> e.payload.position])]
    [] s.name = "requested" /\ e.type = "assign" ->
         [name |-> "assigned", plantId |-> s.plantId, position |-> s.position, robotId |-> e.payload.robotId]
    [] s.name = "requested" /\ e.type = "fail" -> [name |-> "failed"]
    [] s.name = "assigned" /\ e.type = "accept" ->
         [name |-> "moving", plantId |-> s.plantId, position |-> s.position,
          robotId |-> s.robotId, robot |-> e.payload.position]
    [] s.name = "assigned" /\ e.type = "fail2" -> [name |-> "failed"]
    [] s.name = "moving" /\ e.type = "move" -> [s EXCEPT !.robot = e.payload.position]
    [] s.name = "moving" /\ e.type = "finish" -> [name |-> "done", when |-> e.time]

\* the reducers of the plant's reactions
PlantReduce(s, e) ==
  CASE s.name = "initial" /\ e.type = "request" ->
         [name |-> "requested", plantId |-> e.payload.plantId, position |-> e.payload.position,
          reqId |-> e.payload.reqId, robots |-> <<>>]
    [] s.name = "requested" /\ e.type = "offer" ->
         [s EXCEPT !.robots = Append(@, [id |-> e.payload.robotId, pos |-> e.payload.position])]
    [] s.name = "requested" /\ e.type = "assign" ->
         [name |-> "assigned", plantId |-> s.plantId, position |-> s.position, robotId |-> e.payload.robotId]
    [] s.name = "requested" /\ e.type = "fail" -> [name |-> "failed"]
    [] s.name = "assigned" /\ e.type = "accept" ->
         [name |-> "moving", plantId |-> s.plantId, position |-> s.position,
          robotId |-> s.robotId, robot |-> e.payload.position]
    [] s.name = "assigned" /\ e.type = "fail2" -> [name |-> "failed"]
    [] s.name = "moving" /\ e.type = "move" -> [s EXCEPT !.robot = e.payload.position]
    [] s.name = "moving" /\ e.type = "finish" -> [name |-> "done", when |-> e.time]

PlantReacts(s, e) == \E r \in PlantReactions : r.source = s.name /\ r.type = e.type

\* a fold in which the last assign wins
PlantReactLast(s, e) ==
  IF PlantReacts(s, e) THEN PlantReduce(s, e)
  ELSE IF s.name = "assigned" /\ e.type = "assign" THEN [s EXCEPT !.robotId = e.payload.robotId]
  ELSE s

\* one step of the plant's fold
PlantReact(s, e) == IF PlantReacts(s, e) THEN PlantReduce(s, e) ELSE s

RECURSIVE PlantFold(_)
PlantFold(evs) ==
  IF evs = <<>> THEN PlantInitial
  ELSE PlantReact(PlantFold(SubSeq(evs, 1, Len(evs) - 1)), evs[Len(evs)])

\* the fold of evs together with the number of events the machine reacted
\* to: the runner's state changes once for each
RECURSIVE RobotRun(_)
RobotRun(evs) ==
  IF evs = <<>> THEN [state |-> RobotInitial, n |-> 0]
  ELSE LET run == RobotRun(SubSeq(evs, 1, Len(evs) - 1))
           e == evs[Len(evs)]
       IN IF RobotReacts(run.state, e)
          THEN [state |-> RobotReact(run.state, e), n |-> run.n + 1]
          ELSE run

RECURSIVE PlantRun(_)
PlantRun(evs) ==
  IF evs = <<>> THEN [state |-> PlantInitial, n |-> 0]
  ELSE LET run == PlantRun(SubSeq(evs, 1, Len(evs) - 1))
           e == evs[Len(evs)]
       IN IF PlantReacts(run.state, e)
          THEN [state |-> PlantReact(run.state, e), n |-> run.n + 1]
          ELSE run

Transitions(role, evs) == IF role = "plant" THEN PlantRun(evs).n ELSE RobotRun(evs).n

\* -------------------------------------------------------------------- state

VARIABLES
  log,             \* the events of each protocol instance, in log order
  now,             \* wall clock, ms
  waterRequest,    \* the events tagged 'waterRequest' with their instance, in log order
  set,             \* findIds: set, the timestamp kept for each id (-1: not in the map)
  reported,        \* the calls of addCb and delCb for each id, in order
  heard,           \* the timestamp of the newest event delivered to findIds for each id
  plog,            \* the events on the plant's own tag
  ppc,             \* the plant's main loop: "off", "run", "sleep", "dead", "crashed", "stopped"
  position,        \* the plant's position
  lastWatered,     \* runPlant: lastWatered
  currentRequest,  \* runPlant: currentRequest (the instance of its runner)
  hasRequested,    \* runPlant: hasRequested
  task,            \* the requestWater tasks, one per request id
  nextReq,         \* number of request ids generated
  rlog,            \* the events on each robot's own tag
  rpos,            \* runRobot: pos
  mission,         \* runRobot: mission
  rseen,           \* the prefix of the mission's log the robot's runner has folded
  rlock,           \* the robot's runner has a command in flight
  timers,          \* the armed bid timeouts of each robot
  waitForAccept,   \* runRobot: waitForAccept (the handle last stored)
  moving,          \* runRobot: moving (the interval and the state it captured)
  active           \* runRobot: active

trackVars == <<set, reported, heard>>
logVars == <<log, now, waterRequest, trackVars>>
plantVars == <<plog, ppc, position, lastWatered, currentRequest, hasRequested, task, nextReq>>
robotVars == <<rlog, rpos, mission, rseen, rlock, timers, waitForAccept, moving, active>>
vars == <<logVars, plantVars, robotVars>>

\* a requestWater task: where it stands, the prefix its runner has yielded and
\* the time of the tick that called it
NoTask == [pc |-> "none", seen |-> -1, at |-> 0]
NoInterval == [on |-> FALSE]
NoTimer == [req |-> 0, snap |-> -1]

Prefix(q, k) == SubSeq(log[q], 1, k)

\* the command c of agent `by` publishes its event with the given payload
Emit(q, by, c, payload) ==
  LET e == Event(payload, c.logType[1], now, by) IN
  /\ log' = [log EXCEPT ![q] = Append(@, e)]
  /\ waterRequest' = IF c.cmd = "request" THEN Append(waterRequest, [req |-> q, event |-> e])
                     ELSE waterRequest
  /\ UNCHANGED trackVars

\* the request events of instance q as the log has them at the start
IsRequest(e) == e.type = "request"

TaggedRequests(q) ==
  LET found == SelectSeq(log[q], IsRequest) IN
  [i \in 1..Len(found) |-> [req |-> q, event |-> found[i]]]

\* a runner that yields the state it finds when it is created and nothing
\* after that
YieldsAtCreation(role, q, seen, k) ==
  /\ k \in 0..Len(log[q])
  /\ seen = -1
  /\ k = Len(log[q])

\* the runner yields a state when it is created and caught up (seen = -1) and
\* then for every batch of events that changed its state; a batch ends at most
\* MaxLag events before the end of the log
Yields(role, q, seen, k) ==
  /\ k \in 0..Len(log[q])
  /\ IF seen = -1 THEN k = Len(log[q])
     ELSE /\ k > seen
          /\ k >= Len(log[q]) - MaxLag
          /\ Transitions(role, Prefix(q, k)) > Transitions(role, Prefix(q, seen))

\* a state snapshot taken at prefix snap is expired once the runner, now at
\* prefix seen, has changed state
Expired(role, q, snap, seen) ==
  Transitions(role, Prefix(q, seen)) # Transitions(role, Prefix(q, snap))

\* ---------------------------------------------------------- App.tsx: findIds

\* the ids findIds may hear of, and the instants at which they publish
TrackIds == {PlantId, "r1"}
PublishTimes == {0, 1000, 30000, 60000, 61000, 62000, 91000, 122000}

\* findIds has been called: nothing is in the map, nothing was reported
TrackerStarts ==
  /\ set = [id \in TrackIds |-> -1]
  /\ reported = [id \in TrackIds |-> <<>>]
  /\ heard = [id \in TrackIds |-> -1]

\* a subscription callback that does not touch the timestamp of an id that
\* is in the map
TrackEventOnce(id, ts) ==
  /\ ts \in PublishTimes
  /\ ts \in {now, now - CheckMs}
  /\ ts >= heard[id]
  /\ heard' = [heard EXCEPT ![id] = ts]
  /\ IF set[id] = -1
     THEN /\ reported' = [reported EXCEPT ![id] = Append(@, "add")]
          /\ set' = [set EXCEPT ![id] = ts]
     ELSE UNCHANGED <<reported, set>>
  /\ UNCHANGED <<log, now, waterRequest, plantVars, robotVars>>

\* the subscription callback: an event of id with timestamp ts is delivered,
\* at once or within one period of the check, the events of an id in order
TrackEvent(id, ts) ==
  /\ ts \in PublishTimes
  /\ ts \in {now, now - CheckMs}
  /\ ts >= heard[id]
  /\ heard' = [heard EXCEPT ![id] = ts]
  /\ reported' = IF set[id] = -1 THEN [reported EXCEPT ![id] = Append(@, "add")] ELSE reported
  /\ set' = [set EXCEPT ![id] = ts]
  /\ UNCHANGED <<log, now, waterRequest, plantVars, robotVars>>

\* the interval callback, CheckMs after the last: every id whose timestamp is
\* more than GoneMs old is deleted from the map and reported
TrackCheck ==
  /\ now < MaxChecks * CheckMs
  /\ now' = now + CheckMs
  /\ LET toRemove == { id \in TrackIds : set[id] # -1 /\ now' - set[id] > GoneMs } IN
     /\ set' = [id \in TrackIds |-> IF id \in toRemove THEN -1 ELSE set[id]]
     /\ reported' = [id \in TrackIds |->
                       IF id \in toRemove THEN Append(reported[id], "del") ELSE reported[id]]
  /\ UNCHANGED <<heard, log, waterRequest, plantVars, robotVars>>

\* ------------------------------------------------------- plant.ts: runPlant

\* the closest robot of the bid list, as the loop over state.payload.robots
\* finds it: the index of the first bid of minimal distance (0: none)
RECURSIVE ClosestUpTo(_, _, _)
ClosestUpTo(robots, pos, n) ==
  IF n = 0 THEN 0
  ELSE LET best == ClosestUpTo(robots, pos, n - 1) IN
       IF best = 0 THEN n
       ELSE IF ShorterThan(Direction(robots[n].pos, pos), Direction(robots[best].pos, pos))
            THEN n ELSE best

\* a loop that compares with <=: the last bid of minimal distance
ClosestLast(robots, pos) ==
  IF robots = <<>> THEN 0
  ELSE CHOOSE i \in 1..Len(robots) :
         /\ \A j \in 1..Len(robots) :
              ~ShorterThan(Direction(robots[j].pos, pos), Direction(robots[i].pos, pos))
         /\ \A j \in (i + 1)..Len(robots) :
              ShorterThan(Direction(robots[i].pos, pos), Direction(robots[j].pos, pos))

Closest(robots, pos) == ClosestUpTo(robots, pos, Len(robots))

\* closest && closestDist < 24 * ENDURANCE * VELOCITY
Serviceable(robots, pos) ==
  /\ Closest(robots, pos) # 0
  /\ LenLess(Direction(robots[Closest(robots, pos)].pos, pos), 24 * ENDURANCE * VELOCITY)

\* 100 - elapsed / ENDURANCE
WaterLevel == 100 - (now - lastWatered) \div ENDURANCE

\* requestWater(): a request id is made and waterRequested is being published
StartRequest ==
  /\ nextReq < MaxReq
  /\ nextReq' = nextReq + 1
  /\ task' = [task EXCEPT ![nextReq + 1] = [pc |-> "publishing", seen |-> -1, at |-> now]]

\* the waterLevel event a tick publishes
LevelEv == [type |-> "waterLevel", level |-> WaterLevel, time |-> now]

\* a main loop that lets the plant live through the tick at which its water
\* level reaches 0 (it tests < 0)
PlantTickLate ==
  /\ ppc = "run"
  /\ IF WaterLevel < 0
     THEN /\ plog' = plog \o << LevelEv, [type |-> "died", time |-> now] >>
          /\ ppc' = "dead"
          /\ UNCHANGED <<task, nextReq>>
     ELSE /\ ppc' = "sleep"
          /\ plog' = Append(plog, LevelEv)
          /\ IF WaterLevel < RequestLevel /\ currentRequest = None
             THEN StartRequest
             ELSE UNCHANGED <<task, nextReq>>
  /\ UNCHANGED <<position, lastWatered, currentRequest, hasRequested, logVars, robotVars>>

\* one iteration of the main loop, up to the 1 s sleep
PlantTick ==
  /\ ppc = "run"
  /\ IF WaterLevel <= 0
     THEN /\ plog' = plog \o << LevelEv, [type |-> "died", time |-> now] >>
          /\ ppc' = "dead"
          /\ UNCHANGED <<task, nextReq>>
     ELSE /\ ppc' = "sleep"
          /\ plog' = Append(plog, LevelEv)
          /\ IF WaterLevel < RequestLevel /\ currentRequest = None
             THEN StartRequest
             ELSE UNCHANGED <<task, nextReq>>
  /\ UNCHANGED <<position, lastWatered, currentRequest, hasRequested, logVars, robotVars>>

\* an iteration of the main loop whose publish of waterLevel is rejected: the
\* await throws, nothing catches it, and runPlant ends with the exception
PlantTickFails ==
  /\ ppc = "run"
  /\ ppc' = "crashed"
  /\ UNCHANGED <<plog, position, lastWatered, currentRequest, hasRequested, task, nextReq,
                 logVars, robotVars>>

\* cleanup.clean() of the plant: `active = false` ends the main loop at its
\* next test, and the runner that currentRequest holds is destroyed, which
\* ends the for-await of its requestWater and lets it clear the two markers
PlantCleanup ==
  /\ ppc \in {"run", "sleep"}
  /\ ppc' = "stopped"
  /\ LET destroyed == { q \in Reqs : q = currentRequest /\ task[q].pc = "following" } IN
     /\ task' = [q \in Reqs |-> IF q \in destroyed THEN [task[q] EXCEPT !.pc = "ended"]
                                  ELSE task[q]]
     /\ currentRequest' = IF destroyed = {} THEN currentRequest ELSE None
     /\ hasRequested' = IF destroyed = {} THEN hasRequested ELSE None
  /\ UNCHANGED <<plog, position, lastWatered, nextReq, logVars, robotVars>>

\* the 1 s sleep of the main loop ends
PlantWake ==
  /\ ppc = "sleep"
  /\ ppc' = "run"
  /\ now' = now + TickMs
  /\ UNCHANGED <<log, waterRequest, trackVars, plog, position, lastWatered, currentRequest, hasRequested,
                 task, nextReq, robotVars>>

\* requestWater: the publish of waterRequested returns and the runner is made
PlantPublished(q) ==
  /\ task[q].pc = "publishing"
  /\ plog' = Append(plog, [type |-> "waterRequested", reqId |-> q, time |-> now])
  /\ currentRequest' = q
  /\ hasRequested' = q
  /\ task' = [task EXCEPT ![q].pc = "following"]
  /\ UNCHANGED <<ppc, position, lastWatered, nextReq, logVars, robotVars>>

\* requestWater: the runner of instance q yields the fold of the first k events
PlantObserve(q, k) ==
  /\ task[q].pc = "following"
  /\ Yields("plant", q, task[q].seen, k)
  /\ LET s == PlantFold(Prefix(q, k))
         cmds == PlantCommands(s.name)
     IN
     CASE s.name = "initial" /\ \E c \in cmds : c.cmd = "request" ->
            LET c == CHOOSE c \in cmds : c.cmd = "request" IN
            /\ Emit(q, PlantId, c, RequestEv(PlantId, position, hasRequested))
            /\ task' = [task EXCEPT ![q].seen = k]
            /\ UNCHANGED <<now, plog, lastWatered, currentRequest, hasRequested>>
       [] s.name = "requested" /\ Len(s.robots) > 0 /\ Serviceable(s.robots, position)
          /\ \E c \in cmds : c.cmd = "assign" ->
            LET c == CHOOSE c \in cmds : c.cmd = "assign" IN
            /\ Emit(q, PlantId, c, AssignEv(s.robots[Closest(s.robots, position)].id))
            /\ task' = [task EXCEPT ![q].seen = k]
            /\ UNCHANGED <<now, plog, lastWatered, currentRequest, hasRequested>>
       [] s.name = "done" ->
            /\ plog' = Append(plog, [type |-> "waterReceived", time |-> now])
            /\ task' = [task EXCEPT ![q] = [pc |-> "received", seen |-> k, at |-> now]]
            /\ UNCHANGED <<logVars, lastWatered, currentRequest, hasRequested>>
       [] OTHER ->
            /\ task' = [task EXCEPT ![q].seen = k]
            /\ UNCHANGED <<logVars, plog, lastWatered, currentRequest, hasRequested>>
  /\ UNCHANGED <<ppc, position, nextReq, robotVars>>

\* a requestWater that takes the time at which it saw done for the time of
\* the watering
PlantWateredNow(q) ==
  /\ task[q].pc = "received"
  /\ lastWatered' = now
  /\ currentRequest' = None
  /\ hasRequested' = None
  /\ task' = [task EXCEPT ![q].pc = "ended"]
  /\ UNCHANGED <<plog, ppc, position, nextReq, logVars, robotVars>>

\* requestWater: the publish of waterReceived returns, the loop is left
PlantWatered(q) ==
  /\ task[q].pc = "received"
  /\ lastWatered' = PlantFold(Prefix(q, task[q].seen)).when
  /\ currentRequest' = None
  /\ hasRequested' = None
  /\ task' = [task EXCEPT ![q].pc = "ended"]
  /\ UNCHANGED <<plog, ppc, position, nextReq, logVars, robotVars>>

\* a history query that yields the died events only
LifecycleDied == { i \in 1..Len(plog) : plog[i].type = "died" }

\* the lifecycle events (created, died) on the plant's own tag
Lifecycle == { i \in 1..Len(plog) : plog[i].type \in {"created", "died"} }

\* history.at(-1): the last lifecycle event
LastLifecycle == plog[CHOOSE i \in Lifecycle : \A j \in Lifecycle : j <= i]

\* a query that yields the last waterRequested event whatever has followed it
LatestWateringAsked ==
  LET asked == { i \in 1..Len(plog) : plog[i].type = "waterRequested" } IN
  IF asked = {} THEN 0 ELSE CHOOSE i \in asked : \A j \in asked : j <= i

\* FROM myTag ORDER DESC LIMIT 1 FILTER waterRequested | waterReceived: the
\* stages of the query apply in order, so the last event of the own tag is
\* taken and then kept if it is one of the two (0: the query yields nothing)
LatestWatering ==
  IF plog # <<>> /\ plog[Len(plog)].type \in {"waterRequested", "waterReceived"}
  THEN Len(plog) ELSE 0

\* a start that takes a plant whose last lifecycle event is died for a live one
PlantBootResurrect ==
  /\ ppc = "off"
  /\ Lifecycle # {}
  /\ ppc' = "run"
  /\ position' = position
  /\ lastWatered' = now
  /\ hasRequested' = None
  /\ currentRequest' = None
  /\ task' = [q \in Reqs |-> NoTask]
  /\ UNCHANGED <<plog, nextReq, logVars, robotVars>>

\* runPlant up to its main loop, in a process that has just been started
PlantBoot ==
  /\ ppc = "off"
  /\ IF Lifecycle # {} /\ LastLifecycle.type = "died"
     THEN /\ ppc' = "dead"
          /\ task' = [q \in Reqs |-> NoTask]
          /\ UNCHANGED <<plog, position, lastWatered, hasRequested, currentRequest>>
     ELSE LET fresh == Lifecycle = {}
              log1 == IF fresh
                      THEN Append(plog, [type |-> "created", pos |-> position, time |-> now])
                      ELSE plog
              latest == IF ~fresh /\ LatestWatering # 0 THEN plog[LatestWatering]
                        ELSE [type |-> "none"]
              asked == IF latest.type = "waterRequested" THEN latest.reqId ELSE None
          IN
          /\ plog' = log1
          /\ position' = IF fresh THEN position ELSE LastLifecycle.pos
          /\ lastWatered' = IF latest.type = "waterReceived" THEN latest.time
                            ELSE IF fresh THEN now ELSE LastLifecycle.time
          /\ hasRequested' = asked
          /\ currentRequest' = asked
          /\ task' = [q \in Reqs |->
                       IF q = asked THEN [pc |-> "following", seen |-> -1, at |-> now] ELSE NoTask]
          /\ ppc' = "run"
  /\ UNCHANGED <<nextReq, logVars, robotVars>>

\* followPlant: what a passive follower derives from the events of the
\* plant's own tag
RECURSIVE FollowPlant(_)
FollowPlant(evs) ==
  IF evs = <<>> THEN [waterLevel |-> 100, mission |-> None, died |-> FALSE]
  ELSE LET f == FollowPlant(SubSeq(evs, 1, Len(evs) - 1))
           e == evs[Len(evs)]
       IN IF f.died THEN f
          ELSE CASE e.type = "waterRequested" -> [f EXCEPT !.mission = e.reqId]
                 [] e.type = "waterReceived" -> [f EXCEPT !.waterLevel = 100, !.mission = None]
                 [] e.type = "waterLevel" -> [f EXCEPT !.waterLevel = e.level]
                 [] e.type = "died" -> [f EXCEPT !.died = TRUE]
                 [] OTHER -> f

\* ------------------------------------------------------- robot.ts: runRobot

\* s.commands() that answers for an expired snapshot as for a current one
RobotCommandsStale(r, q, snap, name) ==
  IF mission[r] # q \/ rlock[r] THEN {} ELSE RobotCommands(name)

\* s.commands() on a snapshot taken at prefix snap of the robot's mission:
\* undefined once the snapshot is expired, the runner is destroyed or a
\* command of this runner is in flight
RobotCommandsAvailable(r, q, snap, name) ==
  IF mission[r] # q \/ rlock[r] \/ Expired("robot", q, snap, rseen[r])
  THEN {} ELSE RobotCommands(name)

\* does the request event e qualify for the scan of the robot
Scannable(e) ==
  /\ e.type = "request"
  /\ e.time > now - 60000
  /\ ~(Lifecycle # {} /\ LastLifecycle.type = "died")

\* a scan that goes through the query's results from the newest to the oldest
ScanPickLast ==
  LET free == { i \in 1..Len(waterRequest) :
                  /\ Scannable(waterRequest[i].event)
                  /\ RobotFold(log[waterRequest[i].req]).name = "requested" }
  IN IF free = {} THEN None
     ELSE waterRequest[CHOOSE i \in free : \A j \in free : j <= i].req

\* the instance the scan adopts: the query's results are gone through in
\* the order of the log, and the first whose instance folds to requested is
\* taken (0: none)
ScanPick ==
  LET free == { i \in 1..Len(waterRequest) :
                  /\ Scannable(waterRequest[i].event)
                  /\ RobotFold(log[waterRequest[i].req]).name = "requested" }
  IN IF free = {} THEN None
     ELSE waterRequest[CHOOSE i \in free : \A j \in free : i <= j].req

\* the main loop without a mission: pick one and make its runner
RobotScan(r) ==
  /\ active[r]
  /\ mission[r] = None
  /\ ScanPick # None
  /\ mission' = [mission EXCEPT ![r] = ScanPick]
  /\ rseen' = [rseen EXCEPT ![r] = -1]
  /\ rlock' = [rlock EXCEPT ![r] = FALSE]
  /\ waitForAccept' = [waitForAccept EXCEPT ![r] = NoTimer]
  /\ UNCHANGED <<rlog, rpos, timers, moving, active, logVars, plantVars>>

\* the code after the for-await loop of a mission
LeaveMission(r) ==
  /\ mission' = [mission EXCEPT ![r] = None]
  /\ moving' = [moving EXCEPT ![r] = NoInterval]

\* clearTimeout(waitForAccept); waitForAccept = null
ClearWait(r) ==
  /\ timers' = [timers EXCEPT ![r] = @ \ {waitForAccept[r]}]
  /\ waitForAccept' = [waitForAccept EXCEPT ![r] = NoTimer]

\* a test of the bid list that looks at its first entry only
IncludesFirst(robots, id) == robots # <<>> /\ robots[1] = id

\* s.payload.robots.includes(id)
Includes(robots, id) == \E i \in 1..Len(robots) : robots[i] = id

\* a test of the assignment that any robot passes
AssignedToAny(s, id) == s.name = "assigned"

\* s.payload.robotId === id
AssignedTo(s, id) == s.robotId = id

\* the mission loop: the runner yields the fold of the first k events
RobotObserve(r, k) ==
  /\ active[r]
  /\ mission[r] # None
  /\ Yields("robot", mission[r], rseen[r], k)
  /\ LET q == mission[r]
         s == RobotFold(Prefix(q, k))
         cmds == RobotCommands(s.name)
     IN
     /\ rseen' = [rseen EXCEPT ![r] = k]
     /\ CASE s.name = "requested" /\ ~Includes(s.robots, r)
             /\ \E c \in cmds : c.cmd = "offer" ->
               LET c == CHOOSE c \in cmds : c.cmd = "offer" IN
               /\ Emit(q, r, c, OfferEv(r, rpos[r]))
               /\ rlock' = [rlock EXCEPT ![r] = TRUE]
               /\ UNCHANGED <<now, rlog, mission, timers, waitForAccept, moving>>
          [] s.name = "requested" /\ Includes(s.robots, r) ->
               /\ timers' = [timers EXCEPT ![r] = @ \cup {[req |-> q, snap |-> k]}]
               /\ waitForAccept' = [waitForAccept EXCEPT ![r] = [req |-> q, snap |-> k]]
               /\ rlock' = [rlock EXCEPT ![r] = FALSE]
               /\ UNCHANGED <<logVars, rlog, mission, moving>>
          [] s.name = "assigned" /\ AssignedTo(s, r) /\ \E c \in cmds : c.cmd = "start" ->
               LET c == CHOOSE c \in cmds : c.cmd = "start" IN
               /\ Emit(q, r, c, AcceptEv(rpos[r]))
               /\ rlog' = [rlog EXCEPT ![r] = Append(@, [type |-> "mission", mission |-> q])]
               /\ rlock' = [rlock EXCEPT ![r] = TRUE]
               /\ ClearWait(r)
               /\ UNCHANGED <<now, mission, moving>>
          [] s.name = "assigned" /\ ~AssignedTo(s, r) ->
               /\ ClearWait(r)
               /\ LeaveMission(r)
               /\ rlock' = [rlock EXCEPT ![r] = FALSE]
               /\ UNCHANGED <<logVars, rlog>>
          [] s.name = "moving" ->
               /\ ClearWait(r)
               /\ moving' = [moving EXCEPT ![r] =
                              IF @.on THEN @ ELSE [on |-> TRUE, plantPos |-> s.plantPos]]
               /\ rlock' = [rlock EXCEPT ![r] = FALSE]
               /\ UNCHANGED <<logVars, rlog, mission>>
          [] s.name = "done" ->
               /\ rlog' = [rlog EXCEPT ![r] = Append(@, [type |-> "idle"])]
               /\ ClearWait(r)
               /\ LeaveMission(r)
               /\ rlock' = [rlock EXCEPT ![r] = FALSE]
               /\ UNCHANGED logVars
          [] s.name = "failed" ->
               /\ ClearWait(r)
               /\ LeaveMission(r)
               /\ rlock' = [rlock EXCEPT ![r] = FALSE]
               /\ UNCHANGED <<logVars, rlog>>
          [] OTHER ->
               /\ ClearWait(r)
               /\ rlock' = [rlock EXCEPT ![r] = FALSE]
               /\ UNCHANGED <<logVars, rlog, mission, moving>>
  /\ UNCHANGED <<rpos, active, plantVars>>

\* a bid timeout that publishes fail without asking the snapshot for its
\* commands
TimerFireBlind(r, t) ==
  /\ t \in timers[r]
  /\ timers' = [timers EXCEPT ![r] = @ \ {t}]
  /\ IF mission[r] = t.req
     THEN LET c == CHOOSE c \in RobotCommands("requested") : c.cmd = "fail" IN
          /\ Emit(t.req, r, c, FailEv(r))
          /\ rlock' = [rlock EXCEPT ![r] = TRUE]
          /\ now' = now
     ELSE UNCHANGED <<logVars, rlock>>
  /\ UNCHANGED <<rlog, rpos, mission, rseen, waitForAccept, moving, active, plantVars>>

\* the bid timeout t of robot r expires: s.commands()?.fail({ robotId: id })
TimerFire(r, t) ==
  /\ t \in timers[r]
  /\ timers' = [timers EXCEPT ![r] = @ \ {t}]
  /\ LET cmds == RobotCommandsAvailable(r, t.req, t.snap, "requested") IN
     IF \E c \in cmds : c.cmd = "fail"
     THEN LET c == CHOOSE c \in cmds : c.cmd = "fail" IN
          /\ Emit(t.req, r, c, FailEv(r))
          /\ rlock' = [rlock EXCEPT ![r] = TRUE]
          /\ now' = now
     ELSE UNCHANGED <<logVars, rlock>>
  /\ UNCHANGED <<rlog, rpos, mission, rseen, waitForAccept, moving, active, plantVars>>

\* the position the movement rule computes from here towards there
NextPos(here, there) ==
  LET direction == Direction(here, there) IN
  IF LenLess(direction, 1) THEN here
  ELSE IF LenLess(direction, VELOCITY) THEN PosAdd(here, direction)
  ELSE PosAdd(here, NormalizeScale(direction, VELOCITY))

\* one run of the 300 ms movement interval
MoveTick(r) ==
  /\ moving[r].on
  /\ mission[r] # None
  /\ LET q == mission[r]
         here == rpos[r]
         there == moving[r].plantPos
         direction == Direction(here, there)
         s2 == RobotFold(Prefix(q, rseen[r]))
         cmds == RobotCommandsAvailable(r, q, rseen[r], s2.name)
     IN
     /\ s2.name = "moving"
     /\ rpos' = [rpos EXCEPT ![r] = NextPos(here, there)]
     /\ LET cmd == IF LenLess(direction, 1) THEN "done" ELSE "move" IN
        IF \E c \in cmds : c.cmd = cmd
        THEN LET c == CHOOSE c \in cmds : c.cmd = cmd IN
             /\ Emit(q, r, c, IF cmd = "done" THEN FinishEv(s2.plantId)
                                                ELSE MoveEv(NextPos(here, there)))
             /\ rlock' = [rlock EXCEPT ![r] = TRUE]
             /\ now' = now
             /\ rlog' = IF cmd = "move"
                        THEN [rlog EXCEPT ![s2.robotId] =
                                Append(@, Event(MoveEv(NextPos(here, there)), "move", now, r))]
                        ELSE rlog
        ELSE UNCHANGED <<logVars, rlock, rlog>>
  /\ UNCHANGED <<mission, rseen, timers, waitForAccept, moving, active, plantVars>>

\* cleanup.clean(): the robot is shut down, its runner destroyed
RobotCleanup(r) ==
  /\ active[r]
  /\ active' = [active EXCEPT ![r] = FALSE]
  /\ LeaveMission(r)
  /\ UNCHANGED <<rlog, rpos, rseen, rlock, timers, waitForAccept, logVars, plantVars>>

\* the events of the given type on the own tag of robot r
RobotEvents(r, type) == { i \in 1..Len(rlog[r]) : rlog[r][i].type = type }

\* AGGREGATE LAST(_.mission) over the robot's mission events (0: none)
LastMission(r) ==
  IF RobotEvents(r, "mission") = {} THEN None
  ELSE rlog[r][CHOOSE i \in RobotEvents(r, "mission") :
                  \A j \in RobotEvents(r, "mission") : j <= i].mission

\* runRobot up to its main loop, in a process that has just been started: the
\* position is that of the created event (published if there is none), the
\* mission is the last one noted on the own tag, and a runner over the own
\* tag yields one state that may drop the mission or give the position
RobotBoot(r) ==
  /\ ~active[r]
  /\ LET born == RobotEvents(r, "created")
         p == IF born = {} THEN rpos[r] ELSE rlog[r][CHOOSE i \in born : \A j \in born : i <= j].pos
         s == RobotFold(rlog[r])
     IN
     /\ rlog' = IF born = {}
                THEN [rlog EXCEPT ![r] = Append(@, [type |-> "created", pos |-> p])]
                ELSE rlog
     /\ mission' = [mission EXCEPT ![r] =
                      IF LastMission(r) # None /\ s.name = "initial" THEN None ELSE LastMission(r)]
     /\ rpos' = [rpos EXCEPT ![r] =
                   IF LastMission(r) # None /\ "robotPos" \in DOMAIN s THEN s.robotPos ELSE p]
  /\ active' = [active EXCEPT ![r] = TRUE]
  /\ rseen' = [rseen EXCEPT ![r] = -1]
  /\ rlock' = [rlock EXCEPT ![r] = FALSE]
  /\ timers' = [timers EXCEPT ![r] = {}]
  /\ waitForAccept' = [waitForAccept EXCEPT ![r] = NoTimer]
  /\ moving' = [moving EXCEPT ![r] = NoInterval]
  /\ UNCHANGED <<logVars, plantVars>>

\* followRobot: what a passive follower derives from the events of a robot's
\* own tag, starting from the position `start`
RECURSIVE FollowRobot(_, _)
FollowRobot(evs, start) ==
  IF evs = <<>> THEN [pos |-> start, mission |-> None]
  ELSE LET f == FollowRobot(SubSeq(evs, 1, Len(evs) - 1), start)
           e == evs[Len(evs)]
       IN CASE e.type = "created" -> [f EXCEPT !.pos = e.pos]
            [] e.type = "mission" -> [f EXCEPT !.mission = e.mission]
            [] e.type = "idle" -> [f EXCEPT !.mission = None]
            [] e.type = "move" -> [f EXCEPT !.pos = e.payload.position]
            [] OTHER -> f

\* --------------------------------------------------------- specifications

PlantStart == Pos(0, 0)

\* the plant has just asked for water with request id 1 (the publish of
\* waterRequested has returned) and follows that instance
PlantAsked ==
  /\ now = 26000
  /\ plog = << [type |-> "created", pos |-> PlantStart, time |-> 0],
               [type |-> "waterRequested", reqId |-> 1, time |-> 26000] >>
  /\ ppc = "sleep"
  /\ position = PlantStart
  /\ lastWatered = 0
  /\ currentRequest = 1
  /\ hasRequested = 1
  /\ task = [q \in Reqs |-> IF q = 1 THEN [pc |-> "following", seen |-> -1, at |-> 26000] ELSE NoTask]
  /\ nextReq = 1

\* the robots in `running` have been started at the positions `at` and scan
RobotsStarted(running, at) ==
  /\ rlog = [r \in Robots |-> IF r \in running THEN << [type |-> "created", pos |-> at[r]] >> ELSE <<>>]
  /\ rpos = at
  /\ mission = [r \in Robots |-> None]
  /\ rseen = [r \in Robots |-> -1]
  /\ rlock = [r \in Robots |-> FALSE]
  /\ timers = [r \in Robots |-> {}]
  /\ waitForAccept = [r \in Robots |-> NoTimer]
  /\ moving = [r \in Robots |-> NoInterval]
  /\ active = [r \in Robots |-> r \in running]

\* the lengths of the log of q a runner may have applied when it yields
Views(q) == { k \in 0..Len(log[q]) : k >= Len(log[q]) - MaxLag }

PlantFollows == \E q \in Reqs : \E k \in Views(q) : PlantObserve(q, k)
PlantFinishes == \E q \in Reqs : PlantWatered(q)
RobotFollows ==
  \E r \in Robots : mission[r] # None /\ \E k \in Views(mission[r]) : RobotObserve(r, k)
RobotScans == \E r \in Robots : RobotScan(r)
TimerFires == \E r \in Robots : \E t \in timers[r] : TimerFire(r, t)
MoveTicks == \E r \in Robots : MoveTick(r)
RobotCleanups == \E r \in Robots : RobotCleanup(r)
RobotBoots == RobotBoot("r1")
PlantPublishes == \E q \in Reqs : PlantPublished(q)

\* Spec: one instance, the plant and two robots, one at the plant and one
\* three units away
Init ==
  /\ log = [q \in Reqs |-> <<>>]
  /\ PlantAsked
  /\ RobotsStarted(Robots, [r \in Robots |-> IF r = "r1" THEN Pos(0, 0) ELSE Pos(0, 3)])
  /\ waterRequest = TaggedRequests(1)
  /\ TrackerStarts

Next ==
  \/ PlantFollows
  \/ PlantFinishes
  \/ RobotScans
  \/ RobotFollows
  \/ TimerFires
  \/ MoveTicks

Spec == Init /\ [][Next]_vars

\* MoveSpec: one instance, the plant and one robot that starts at any of
\* MoveStarts and may be shut down and started again
MoveStarts == { Pos(0, 0), Pos(5, 0), Pos(11, 0), Pos(30, 0), Pos(12, 16), Pos(30, 40) }

MoveInit ==
  /\ log = [q \in Reqs |-> <<>>]
  /\ PlantAsked
  /\ \E p \in MoveStarts : RobotsStarted({"r1"}, [r \in Robots |-> p])
  /\ waterRequest = TaggedRequests(1)
  /\ TrackerStarts

MoveNext == Next \/ RobotCleanups \/ RobotBoots

MoveSpec == MoveInit /\ [][MoveNext]_vars

\* SelectSpec: the plant alone, following an instance that already holds up
\* to MaxBids offers
SelectPositions == { Pos(10, 0), Pos(30, 0), Pos(0, 10), Pos(6, 8), Pos(3, 4) }

RECURSIVE OfferLists(_)
OfferLists(n) ==
  IF n = 0 THEN { <<>> }
  ELSE LET shorter == OfferLists(n - 1) IN
       shorter \cup { Append(l, Event(OfferEv(r, p), "offer", 26000, r)) :
                        l \in { l \in shorter : Len(l) = n - 1 }, r \in Robots, p \in SelectPositions }

SelectInit ==
  /\ \E offers \in OfferLists(MaxBids) :
       log = [q \in Reqs |-> IF q = 1
                              THEN << Event(RequestEv(PlantId, PlantStart, 1), "request", 26000, PlantId) >> \o offers
                              ELSE <<>>]
  /\ PlantAsked
  /\ RobotsStarted({}, [r \in Robots |-> Pos(0, 0)])
  /\ waterRequest = TaggedRequests(1)
  /\ TrackerStarts

SelectSpec == SelectInit /\ [][PlantFollows]_vars

\* FoldSpec: the folds of the two machines over any sequence of events
FoldEvents ==
  { Event(RequestEv(PlantId, PlantStart, 1), "request", 26000, PlantId),
    Event(OfferEv("r1", Pos(0, 0)), "offer", 26000, "r1"),
    Event(OfferEv("r2", Pos(0, 3)), "offer", 26000, "r2"),
    Event(AssignEv("r1"), "assign", 26000, PlantId),
    Event(AssignEv("r2"), "assign", 26000, PlantId),
    Event(FailEv("r2"), "fail", 26000, "r2"),
    Event(AcceptEv(Pos(0, 0)), "accept", 26000, "r1"),
    Event(Fail2Ev("r1"), "fail2", 26000, PlantId),
    Event(MoveEv(Pos(0, 3)), "move", 26000, "r2"),
    Event(FinishEv(PlantId), "finish", 27000, "r1"),
    Event(Fail3Ev("r1"), "fail3", 26000, "r1"),
    Event([type |-> "waterLevel", level |-> 48], "waterLevel", 26000, PlantId) }

\* an instance that is moving
FoldSeed ==
  << Event(RequestEv(PlantId, PlantStart, 1), "request", 26000, PlantId),
     Event(OfferEv("r1", Pos(0, 0)), "offer", 26000, "r1"),
     Event(AssignEv("r1"), "assign", 26000, PlantId),
     Event(AcceptEv(Pos(0, 0)), "accept", 26000, "r1") >>

FoldInit ==
  /\ \E seed \in { <<>>, FoldSeed } : log = [q \in Reqs |-> IF q = 1 THEN seed ELSE <<>>]
  /\ PlantAsked
  /\ RobotsStarted({}, [r \in Robots |-> Pos(0, 0)])
  /\ waterRequest = TaggedRequests(1)
  /\ TrackerStarts

\* the events FoldSpec appends to a log: MaxAppend, to the empty log or FoldSeed
FoldBudget(evs) ==
  IF Len(evs) >= Len(FoldSeed) /\ SubSeq(evs, 1, Len(FoldSeed)) = FoldSeed
  THEN Len(FoldSeed) + MaxAppend ELSE MaxAppend

\* any event is appended to instance 1
FoldAppend(e) ==
  /\ Len(log[1]) < FoldBudget(log[1])
  /\ log' = [log EXCEPT ![1] = Append(@, e)]
  /\ waterRequest' = IF IsRequest(e) THEN Append(waterRequest, [req |-> 1, event |-> e])
                     ELSE waterRequest
  /\ UNCHANGED trackVars
  /\ UNCHANGED <<now, plantVars, robotVars>>

FoldNext == \E e \in FoldEvents : FoldAppend(e)

FoldSpec == FoldInit /\ [][FoldNext]_vars

\* PlantSpec: the plant from its creation with its main loop, and one robot
\* that stands at the plant
PlantInit ==
  /\ log = [q \in Reqs |-> <<>>]
  /\ now = 0
  /\ plog = << [type |-> "created", pos |-> PlantStart, time |-> 0] >>
  /\ ppc = "run"
  /\ position = PlantStart
  /\ lastWatered = 0
  /\ currentRequest = None
  /\ hasRequested = None
  /\ task = [q \in Reqs |-> NoTask]
  /\ nextReq = 0
  /\ RobotsStarted({"r1"}, [r \in Robots |-> Pos(0, 0)])
  /\ waterRequest = TaggedRequests(1)
  /\ TrackerStarts

\* the swarm is settled when no runner has a state to yield, no robot has a
\* request to pick up and no timer is armed: events travel and the robots
\* react in milliseconds, the main loop of the plant sleeps a second
Settled ==
  /\ \A q \in Reqs :
       task[q].pc = "following"
         => ~\E k \in Views(q) : Yields("plant", q, task[q].seen, k)
  /\ \A r \in Robots :
       /\ timers[r] = {}
       /\ active[r] /\ mission[r] = None => ScanPick = None
       /\ mission[r] # None =>
            /\ active[r] => ~\E k \in Views(mission[r]) : Yields("robot", mission[r], rseen[r], k)
            /\ ~(moving[r].on /\ RobotFold(Prefix(mission[r], rseen[r])).name = "moving")

\* the sleep ends once the swarm is settled, up to the horizon of PlantSpec; a
\* publish of waterRequested takes less than two sleeps, one of waterReceived
\* less than one
PlantSleeps ==
  /\ now < MaxTicks * TickMs
  /\ Settled
  /\ \A q \in Reqs : task[q].pc = "publishing" => task[q].at = now
  /\ \A q \in Reqs : task[q].pc # "received"
  /\ PlantWake

PlantNext == Next \/ PlantTick \/ PlantSleeps \/ PlantPublishes

PlantSpec == PlantInit /\ [][PlantNext]_vars

\* FaultSpec: PlantSpec with a log that may reject a publish of the main loop
FaultNext == PlantNext \/ PlantTickFails

FaultSpec == PlantInit /\ [][FaultNext]_vars

\* CleanSpec: PlantSpec with the shutdown of the plant and of the robot
CleanNext == PlantNext \/ PlantCleanup \/ RobotCleanups

CleanSpec == PlantInit /\ [][CleanNext]_vars

\* the own tag of a plant created at 0 that has run its ticks up to t without
\* water: its levels, and waterRequested at the first level below RequestLevel
RECURSIVE Unwatered(_)
Unwatered(t) ==
  IF t < 0 THEN << [type |-> "created", pos |-> PlantStart, time |-> 0] >>
  ELSE Unwatered(t - TickMs)
         \o << [type |-> "waterLevel", level |-> 100 - t \div ENDURANCE, time |-> t] >>
         \o IF /\ 100 - t \div ENDURANCE < RequestLevel
               /\ 100 - (t - TickMs) \div ENDURANCE >= RequestLevel
            THEN << [type |-> "waterRequested", reqId |-> 1, time |-> t] >>
            ELSE <<>>

\* RebootSpec: the plant of PlantSpec at 27000, when it has asked for water at
\* 26000 and, that publish having returned only now, again at 27000; the
\* robot at the plant may be shut down and started again
NotRequested(e) == e.type # "waterRequested"

RebootInit ==
  /\ log = [q \in Reqs |-> <<>>]
  /\ now = 27000
  /\ plog = Append(SelectSeq(Unwatered(27000), NotRequested),
                   [type |-> "waterRequested", reqId |-> 1, time |-> 27000])
  /\ ppc = "sleep"
  /\ position = PlantStart
  /\ lastWatered = 0
  /\ currentRequest = 1
  /\ hasRequested = 1
  /\ task = [q \in Reqs |-> IF q = 1 THEN [pc |-> "following", seen |-> -1, at |-> 26000]
                            ELSE IF q = 2 THEN [pc |-> "publishing", seen |-> -1, at |-> 27000]
                            ELSE NoTask]
  /\ nextReq = 2
  /\ RobotsStarted({"r1"}, [r \in Robots |-> Pos(0, 0)])
  /\ waterRequest = TaggedRequests(1)
  /\ TrackerStarts

RebootNext == Next \/ PlantPublishes \/ RobotCleanups \/ RobotBoots

RebootSpec == RebootInit /\ [][RebootNext]_vars

\* LateSpec: the plant has asked for water at 26000 and no robot has been
\* running; it is one tick from its death when the robot may be started
LateInit ==
  /\ now = 49000
  /\ log = [q \in Reqs |-> IF q = 1
                            THEN << Event(RequestEv(PlantId, PlantStart, 1), "request", 26000, PlantId) >>
                            ELSE <<>>]
  /\ plog = Unwatered(49000)
  /\ ppc = "sleep"
  /\ position = PlantStart
  /\ lastWatered = 0
  /\ currentRequest = 1
  /\ hasRequested = 1
  /\ task = [q \in Reqs |-> IF q = 1 THEN [pc |-> "following", seen |-> 1, at |-> 26000] ELSE NoTask]
  /\ nextReq = 1
  /\ RobotsStarted({}, [r \in Robots |-> Pos(0, 0)])
  /\ waterRequest = TaggedRequests(1)
  /\ TrackerStarts

LateNext == Next \/ PlantTick \/ PlantSleeps \/ RobotBoots

LateSpec == LateInit /\ [][LateNext]_vars

\* instance 1 as robot r2, standing at the plant, has served it at 26000
Served ==
  << Event(RequestEv(PlantId, PlantStart, 1), "request", 26000, PlantId),
     Event(OfferEv("r2", PlantStart), "offer", 26000, "r2"),
     Event(AssignEv("r2"), "assign", 26000, PlantId),
     Event(AcceptEv(PlantStart), "accept", 26000, "r2"),
     Event(FinishEv(PlantId), "finish", 26000, "r2") >>

\* the states a plant process may have left behind when it stopped: its own
\* tag, instance 1, the number of request ids and the time of the next start
Stops ==
  { [plog |-> <<>>, log1 |-> <<>>, nextReq |-> 0, now |-> 0],
    [plog |-> Append(Unwatered(50000), [type |-> "died", time |-> 50000]),
     log1 |-> SubSeq(Served, 1, 1), nextReq |-> 1, now |-> 51000],
    [plog |-> Unwatered(26000), log1 |-> <<>>, nextReq |-> 1, now |-> 26000],
    [plog |-> Unwatered(26000), log1 |-> SubSeq(Served, 1, 1), nextReq |-> 1, now |-> 27000],
    [plog |-> Unwatered(28000), log1 |-> SubSeq(Served, 1, 1), nextReq |-> 1, now |-> 29000],
    [plog |-> Unwatered(26000), log1 |-> Served, nextReq |-> 1, now |-> 28000],
    [plog |-> Append(Unwatered(26000), [type |-> "waterReceived", time |-> 26000]),
     log1 |-> Served, nextReq |-> 1, now |-> 30000],
    [plog |-> Append(Unwatered(26000), [type |-> "waterReceived", time |-> 26000])
                \o << [type |-> "waterLevel", level |-> 98, time |-> 27000] >>,
     log1 |-> Served, nextReq |-> 1, now |-> 30000] }

\* the process of a plant that was shut down is gone, and with it its tasks
PlantGone ==
  /\ ppc = "stopped"
  /\ ppc' = "off"
  /\ task' = [q \in Reqs |-> NoTask]
  /\ currentRequest' = None
  /\ hasRequested' = None
  /\ UNCHANGED <<plog, position, lastWatered, nextReq, logVars, robotVars>>

\* BirthSpec: the plant and robot r1, eleven units from it, are started on
\* what earlier processes have left behind, which may be nothing, and are shut
\* down and started again any number of times; the clock stands still
BirthInit ==
  /\ \E h \in Stops :
       /\ plog = h.plog
       /\ log = [q \in Reqs |-> IF q = 1 THEN h.log1 ELSE <<>>]
       /\ nextReq = h.nextReq
       /\ now = h.now
  /\ ppc = "off"
  /\ position = PlantStart
  /\ lastWatered = 0
  /\ currentRequest = None
  /\ hasRequested = None
  /\ task = [q \in Reqs |-> NoTask]
  /\ RobotsStarted({}, [r \in Robots |-> Pos(11, 0)])
  /\ waterRequest = TaggedRequests(1)
  /\ TrackerStarts

BirthNext ==
  \/ Next
  \/ PlantBoot
  \/ PlantCleanup
  \/ PlantGone
  \/ RobotCleanups
  \/ RobotBoots

BirthSpec == BirthInit /\ [][BirthNext]_vars

\* the own tag of a plant created at 0 that has run its ticks up to t without
\* being watered and has asked twice, at 26000 and, its first publish not yet
\* returned, again at 27000
RECURSIVE AskedTwice(_)
AskedTwice(t) ==
  IF t < 0 THEN << [type |-> "created", pos |-> PlantStart, time |-> 0] >>
  ELSE AskedTwice(t - TickMs)
         \o << [type |-> "waterLevel", level |-> 100 - t \div ENDURANCE, time |-> t] >>
         \o IF /\ 100 - t \div ENDURANCE < RequestLevel
               /\ 100 - (t - 2 * TickMs) \div ENDURANCE >= RequestLevel
            THEN << [type |-> "waterRequested", time |-> t,
                     reqId |-> IF 100 - (t - TickMs) \div ENDURANCE >= RequestLevel THEN 1 ELSE 2] >>
            ELSE <<>>

\* what the plant has left behind when the robots scan: its process was ended
\* at 27000, or it has died at 50000
ScanStops ==
  { [now |-> 28000, plog |-> AskedTwice(27000)],
    [now |-> 51000, plog |-> Append(AskedTwice(50000), [type |-> "died", time |-> 50000])],
    [now |-> 86000, plog |-> AskedTwice(27000)],
    [now |-> 88000, plog |-> AskedTwice(27000)] }

\* an instance whose request was issued at t: not yet requested, requested,
\* or failed by the timeout of r2
ScanInstances(q, t) ==
  { <<>>,
    << Event(RequestEv(PlantId, PlantStart, q), "request", t, PlantId) >>,
    << Event(RequestEv(PlantId, PlantStart, q), "request", t, PlantId),
       Event(OfferEv("r2", Pos(0, 3)), "offer", t, "r2"),
       Event(FailEv("r2"), "fail", t + 1000, "r2") >> }

\* ScanSpec: both robots scan and bid on what a plant that runs no more has
\* left behind: two instances, requested in either order
ScanInit ==
  /\ \E h \in ScanStops :
       /\ now = h.now
       /\ plog = h.plog
  /\ \E l1 \in ScanInstances(1, 26000) \cup ScanInstances(1, 27000), l2 \in ScanInstances(2, 27000) :
       /\ log = [q \in Reqs |-> IF q = 1 THEN l1 ELSE IF q = 2 THEN l2 ELSE <<>>]
       /\ waterRequest \in { TaggedRequests(1) \o TaggedRequests(2),
                              TaggedRequests(2) \o TaggedRequests(1) }
  /\ TrackerStarts
  /\ ppc = "off"
  /\ position = PlantStart
  /\ lastWatered = 0
  /\ currentRequest = None
  /\ hasRequested = None
  /\ task = [q \in Reqs |-> NoTask]
  /\ nextReq = 2
  /\ rlog = [r \in Robots |-> << [type |-> "created", pos |-> IF r = "r1" THEN Pos(0, 0) ELSE Pos(0, 3)] >>]
  /\ rpos = [r \in Robots |-> IF r = "r1" THEN Pos(0, 0) ELSE Pos(0, 3)]
  /\ mission = [r \in Robots |-> None]
  /\ rseen = [r \in Robots |-> -1]
  /\ rlock = [r \in Robots |-> FALSE]
  /\ timers = [r \in Robots |-> {}]
  /\ waitForAccept = [r \in Robots |-> NoTimer]
  /\ moving = [r \in Robots |-> NoInterval]
  /\ active = [r \in Robots |-> TRUE]

ScanNext == RobotScans \/ RobotFollows \/ TimerFires

ScanSpec == ScanInit /\ [][ScanNext]_vars

\* PresenceSpec: findIds alone, hearing of two ids that publish at some of
\* PublishTimes, over MaxChecks checks
PresenceInit ==
  /\ log = [q \in Reqs |-> <<>>]
  /\ now = 0
  /\ waterRequest = <<>>
  /\ TrackerStarts
  /\ plog = <<>>
  /\ ppc = "off"
  /\ position = PlantStart
  /\ lastWatered = 0
  /\ currentRequest = None
  /\ hasRequested = None
  /\ task = [q \in Reqs |-> NoTask]
  /\ nextReq = 0
  /\ RobotsStarted({}, [r \in Robots |-> Pos(0, 0)])

TrackEvents == \E id \in TrackIds : \E ts \in PublishTimes : TrackEvent(id, ts)

PresenceNext == TrackEvents \/ TrackCheck

PresenceSpec == PresenceInit /\ [][PresenceNext]_vars

\* RestartSpec: the plant process is started on what an earlier process left
\* behind; robot r1 runs at the plant
RestartInit ==
  /\ \E h \in Stops :
       /\ plog = h.plog
       /\ log = [q \in Reqs |-> IF q = 1 THEN h.log1 ELSE <<>>]
       /\ nextReq = h.nextReq
       /\ now = h.now
  /\ ppc = "off"
  /\ position = PlantStart
  /\ lastWatered = 0
  /\ currentRequest = None
  /\ hasRequested = None
  /\ task = [q \in Reqs |-> NoTask]
  /\ RobotsStarted({"r1"}, [r \in Robots |-> Pos(0, 0)])
  /\ waterRequest = TaggedRequests(1)
  /\ TrackerStarts

RestartNext == PlantNext \/ PlantBoot

RestartSpec == RestartInit /\ [][RestartNext]_vars

\* -------------------------------------------------------------- properties

\* the state PROTOCOL leads to from the state `name` on an event of `type`
ProtocolStep(name, type) ==
  IF \E t \in PROTOCOL : t.source = name /\ t.logType[1] = type
  THEN (CHOOSE t \in PROTOCOL : t.source = name /\ t.logType[1] = type).target
  ELSE name

RECURSIVE ProtocolRun(_)
ProtocolRun(evs) ==
  IF evs = <<>> THEN ProtocolInitial
  ELSE ProtocolStep(ProtocolRun(SubSeq(evs, 1, Len(evs) - 1)), evs[Len(evs)].type)

\* C1: RobotMachine is the projection of PROTOCOL onto the robot role: on
\* every state its commands are exactly the robot's transitions of PROTOCOL
\* out of that state, with the same log types; its reactions are exactly the
\* transitions of PROTOCOL of both roles; and over every log its fold is in
\* the state PROTOCOL leads to.
C1_RobotProjection ==
  /\ \A name \in StateNames :
       RobotCommands(name) =
         { [cmd |-> t.cmd, logType |-> t.logType] :
             t \in { u \in PROTOCOL : u.role = "robot" /\ u.source = name } }
  /\ RobotReactions =
       { [source |-> t.source, type |-> t.logType[1], target |-> t.target] : t \in PROTOCOL }
  /\ RobotFold(log[1]).name = ProtocolRun(log[1])

\* a log that has taken the robot machine along PROTOCOL to done, and been
\* appended to after that
C1_Witness ==
  /\ Len(log[1]) > Len(FoldSeed) + 1
  /\ RobotFold(SubSeq(log[1], 1, Len(FoldSeed) + 1)).name = "done"

\* the role of the agent `by`
RoleOf(by) == IF by = PlantId THEN "plant" ELSE "robot"

\* the name of the state agent `by` has folded of instance q after a step:
\* the fold of the prefix its runner has applied
FoldedBy(by, q) ==
  IF by = PlantId THEN PlantFold(SubSeq(log[q], 1, task'[q].seen)).name
  ELSE RobotFold(SubSeq(log[q], 1, rseen'[by])).name

\* C2: an agent issues a command only if PROTOCOL has a transition for it with
\* the agent's role and with the agent's current folded state as source: every
\* event an agent appends to an instance belongs to such a transition, and
\* none is appended by an agent whose fold is done or failed.
C2_CommandsFollowProtocol ==
  [][ \A q \in Reqs :
        Len(log'[q]) > Len(log[q]) =>
          LET e == log'[q][Len(log'[q])] IN
          /\ FoldedBy(e.by, q) \notin {"done", "failed"}
          /\ \E t \in PROTOCOL : /\ t.logType[1] = e.type
                                 /\ t.role = RoleOf(e.by)
                                 /\ t.source = FoldedBy(e.by, q) ]_vars

\* an instance that has been through the commands of both roles up to done,
\* on which a bid timeout has issued fail as well
C2_Witness ==
  /\ \E i \in 1..Len(log[1]) : log[1][i].type = "assign" /\ log[1][i].by = PlantId
  /\ \E i \in 1..Len(log[1]) : log[1][i].type = "move" /\ log[1][i].by = "r2"
  /\ \E i \in 1..Len(log[1]) : log[1][i].type = "fail"
  /\ log[1][Len(log[1])].type = "finish"

Terminal == {"done", "failed"}

\* C3: once the plant machine's or the robot machine's fold of an instance is
\* done or failed, appending an event of any type leaves that fold unchanged.
C3_TerminalStatesStay ==
  [][ \A q \in Reqs :
        /\ PlantFold(log[q]).name \in Terminal => PlantFold(log'[q]) = PlantFold(log[q])
        /\ RobotFold(log[q]).name \in Terminal => RobotFold(log'[q]) = RobotFold(log[q]) ]_vars

\* both folds were done, respectively failed, before the last event, which is
\* one the machines react to in other states
C3_Witness ==
  /\ Len(log[1]) > 1
  /\ LET before == SubSeq(log[1], 1, Len(log[1]) - 1) IN
     /\ PlantFold(before).name = RobotFold(before).name
     /\ PlantFold(before).name \in Terminal
     /\ log[1][Len(log[1])].type \in {"request", "fail3"}

\* the instances the plant has created that have not folded to done or failed
OpenInstances == { q \in Reqs : log[q] # <<>> /\ PlantFold(log[q]).name \notin Terminal }

\* C4: a plant never has two non-terminal instances at once: at most one
\* instance it has created has not folded to done or failed, whatever the
\* interleaving of the hydration tick with requestWater, a pending publish of
\* waterRequested included.
C4_OneOpenInstance == Cardinality(OpenInstances) <= 1

\* C4, second half: a new request id is generated only while no request is
\* open, that is, while no requestWater task is publishing or following.
C4_NoRequestWhileOpen ==
  [][ nextReq' # nextReq =>
        \A q \in Reqs : task[q].pc \notin {"publishing", "following"} ]_vars

\* the square of the distance of the bid b to the plant
BidDist2(b) ==
  (b.pos.x - position.x) * (b.pos.x - position.x) + (b.pos.y - position.y) * (b.pos.y - position.y)

\* the plant appends assign to instance q in this step
PlantAssigns(q) ==
  /\ Len(log'[q]) = Len(log[q]) + 1
  /\ log'[q][Len(log'[q])].type = "assign"
  /\ log'[q][Len(log'[q])].by = PlantId

\* the state of instance q the plant acts on in this step
PlantActsOn(q) == PlantFold(SubSeq(log[q], 1, task'[q].seen))

\* C5: when the plant issues assign from a requested state with a non-empty
\* bid list, the robot it names is the bidder of the earliest bid among those
\* of minimal Euclidean distance to the plant, and that distance is below
\* 24 * ENDURANCE * VELOCITY; with bids at distances 10 and 30 the robot at
\* distance 10 is assigned.
C5_ClosestBidWins ==
  [][ \A q \in Reqs :
        PlantAssigns(q) =>
          LET bids == PlantActsOn(q).robots
              chosen == log'[q][Len(log'[q])].payload.robotId
          IN \E i \in 1..Len(bids) :
               /\ bids[i].id = chosen
               /\ \A j \in 1..Len(bids) : BidDist2(bids[i]) <= BidDist2(bids[j])
               /\ \A j \in 1..(i - 1) : BidDist2(bids[i]) < BidDist2(bids[j])
               /\ LenLess(Direction(bids[i].pos, position), 24 * ENDURANCE * VELOCITY) ]_vars

\* Scenario B with the farther bid first: the bids are r2 at distance 30, then
\* r1 at distance 10, and the plant has assigned r1
C5_Witness ==
  /\ Len(log[1]) = 4
  /\ log[1][2].payload = OfferEv("r2", Pos(30, 0))
  /\ log[1][3].payload = OfferEv("r1", Pos(10, 0))
  /\ log[1][4].payload = AssignEv("r1")

\* two bids at distance 10, r2 at (6, 8) before r1 at (10, 0): r2 is assigned
C5_TieWitness ==
  /\ Len(log[1]) = 4
  /\ log[1][2].payload = OfferEv("r2", Pos(6, 8))
  /\ log[1][3].payload = OfferEv("r1", Pos(10, 0))
  /\ log[1][4].payload = AssignEv("r2")

\* the robot ids of the offers among the first k events of instance q
Bidders(q, k) == { log[q][i].payload.robotId : i \in { j \in 1..k : log[q][j].type = "offer" } }

\* C6: every assign the plant appends names a robot whose offer is in the bid
\* list of the requested state the plant has folded when it issues the
\* command; no assign is issued from a requested state with an empty bid list
\* or from a state other than requested.
C6_AssignNamesBidder ==
  [][ \A q \in Reqs :
        PlantAssigns(q) =>
          LET s == PlantActsOn(q)
              chosen == log'[q][Len(log'[q])].payload.robotId
          IN /\ s.name = "requested"
             /\ s.robots # <<>>
             /\ \E i \in 1..Len(s.robots) : s.robots[i].id = chosen
             /\ chosen \in Bidders(q, task'[q].seen) ]_vars

\* the plant has assigned r2 on a state that held r2's bid only, while r1's
\* offer was already in the log
C6_Witness ==
  /\ Len(log[1]) >= 4
  /\ log[1][2].payload = OfferEv("r2", Pos(0, 3))
  /\ log[1][3].payload = OfferEv("r1", Pos(0, 0))
  /\ log[1][4].payload = AssignEv("r2")

\* the bid timeout t of robot r expires in this step (a cancelled timer goes
\* away in a step of the mission loop, which moves the robot's runner on)
TimerExpires(r, t) ==
  /\ t \in timers[r]
  /\ t \notin timers'[r]
  /\ rseen'[r] = rseen[r]

\* since robot r observed its own bid with the snapshot of timer t, instance
\* t.req has stayed in requested with no state change, and r follows it
WaitedInVain(r, t) ==
  /\ active[r]
  /\ mission[r] = t.req
  /\ RobotFold(log[t.req]).name = "requested"
  /\ \E i \in 1..Len(RobotFold(log[t.req]).robots) : RobotFold(log[t.req]).robots[i] = r
  /\ Transitions("robot", log[t.req]) = Transitions("robot", Prefix(t.req, t.snap))

\* C7: bid timeout.  If the offer of a robot is in the bid list and the
\* instance has stayed in requested with no state change from the robot's
\* observation of its own bid until the timer expires 1000 ms later, the
\* robot appends fail, and the plant's and the robot's fold of the instance
\* are then failed.
C7_BidTimeoutFails ==
  [][ \A r \in Robots : \A t \in timers[r] :
        TimerExpires(r, t) /\ WaitedInVain(r, t) =>
          /\ log'[t.req] = Append(log[t.req], Event(FailEv(r), "fail", now, r))
          /\ PlantFold(log'[t.req]).name = "failed"
          /\ RobotFold(log'[t.req]).name = "failed" ]_vars

\* both robots have bid, r2 last; r2's timeout has expired first and failed
\* the instance
C7_Witness ==
  /\ Len(log[1]) = 4
  /\ log[1][2].payload = OfferEv("r1", Pos(0, 0))
  /\ log[1][3].payload = OfferEv("r2", Pos(0, 3))
  /\ log[1][4].payload = FailEv("r2")
  /\ PlantFold(log[1]).name = "failed"

\* C8: a robot has at most one bid-timeout timer armed; observing requested
\* again with its own bid listed does not leave an earlier timer armed.
C8_OneBidTimer == \A r \in Robots : Cardinality(timers[r]) <= 1

\* C8, last part: no timer of a robot stays armed once the robot has left the
\* mission loop or has been shut down.
C8_NoTimerOutsideMission ==
  \A r \in Robots : mission[r] = None => timers[r] = {} /\ ~moving[r].on

\* C8, middle part: once a robot has observed a state other than requested,
\* no timer of it issues fail.
C8_NoFailAfterLeavingRequested ==
  [][ \A r \in Robots : \A t \in timers[r] :
        /\ TimerExpires(r, t)
        /\ rseen[r] >= 0
        /\ RobotFold(Prefix(t.req, rseen[r])).name # "requested"
        => log' = log ]_vars

\* the step of a fold from s to s2 on the event e respects the first decision
FirstDecisionStands(s, s2, e) ==
  /\ s.name = "requested" /\ e.type = "assign" =>
       s2.name = "assigned" /\ s2.robotId = e.payload.robotId
  /\ s.name = "requested" /\ e.type = "fail" => s2.name = "failed"
  /\ s.name \in {"assigned", "moving", "done", "failed"} /\ e.type \in {"assign", "fail"} => s2 = s
  /\ s.name \in {"assigned", "moving"} /\ s2.name \in {"assigned", "moving"} =>
       s2.robotId = s.robotId

\* C9: of an assign by the plant and a fail by a robot (or several assigns)
\* appended to a requested instance, exactly the first in log order takes
\* effect in every fold: the instance is assigned to the robot of the first
\* assign or failed, later assigns and fails are ignored, the robotId of an
\* assigned fold never changes and no fail event makes it failed.
C9_FirstDecisionWins ==
  [][ \A q \in Reqs :
        Len(log'[q]) = Len(log[q]) + 1 =>
          LET e == log'[q][Len(log'[q])] IN
          /\ FirstDecisionStands(PlantFold(log[q]), PlantFold(log'[q]), e)
          /\ FirstDecisionStands(RobotFold(log[q]), RobotFold(log'[q]), e) ]_vars

\* assign of r1, then the fail of r2: both folds stay assigned to r1
C9_Witness ==
  /\ Len(log[1]) = 3
  /\ log[1][2].payload = AssignEv("r1")
  /\ log[1][3].payload = FailEv("r2")
  /\ PlantFold(log[1]).name = "assigned" /\ PlantFold(log[1]).robotId = "r1"
  /\ RobotFold(log[1]).name = "assigned" /\ RobotFold(log[1]).robotId = "r1"

\* the fail of r2, then an assign: both folds stay failed
C9_FailFirstWitness ==
  /\ Len(log[1]) = 3
  /\ log[1][2].payload = FailEv("r2")
  /\ log[1][3].payload = AssignEv("r1")
  /\ PlantFold(log[1]).name = "failed"
  /\ RobotFold(log[1]).name = "failed"

\* robot r appends an event of the given type and payload to its mission
RobotAppends(r, type, payload) ==
  /\ mission[r] # None
  /\ log'[mission[r]] = Append(log[mission[r]], Event(payload, type, now, r))

\* a movement tick of robot r that shows: the robot moves, or issues move or done
TickShows(r) ==
  \/ rpos'[r] # rpos[r]
  \/ /\ mission[r] # None
     /\ Len(log'[mission[r]]) > Len(log[mission[r]])
     /\ LET e == log'[mission[r]][Len(log'[mission[r]])] IN
        e.by = r /\ e.type \in {"move", "finish"}

\* the position rule of a tick from `here` to `new` with the plant at `there`
PositionRule(here, new, there) ==
  LET d == Direction(here, there)
      step == Direction(here, new)
      rest == Direction(new, there)
  IN
  IF LenLess(d, 1) THEN new = here
  ELSE IF LenLess(d, VELOCITY) THEN new = there
  ELSE /\ Len2(step) = VELOCITY * VELOCITY
       /\ step.x * d.y = step.y * d.x
       /\ step.x * rest.x + step.y * rest.y >= 0

\* C10, the positions alone: on a tick at distance d from the plant the robot
\* stays where it is if d < 1, lands exactly on the plant if 1 <= d < VELOCITY,
\* and otherwise advances by exactly VELOCITY on the straight line towards the
\* plant without passing it.
C10_PositionRule ==
  [][ \A r \in Robots :
        TickShows(r) => PositionRule(rpos[r], rpos'[r], moving[r].plantPos) ]_vars

\* C10: on each movement tick of a robot whose latest folded state is moving,
\* the position changes by the position rule, done is issued if d < 1 and a
\* move carrying the new position is issued otherwise.
C10_MovementTick ==
  [][ \A r \in Robots :
        TickShows(r) =>
          /\ PositionRule(rpos[r], rpos'[r], moving[r].plantPos)
          /\ IF LenLess(Direction(rpos[r], moving[r].plantPos), 1)
             THEN RobotAppends(r, "finish", FinishEv(PlantId))
             ELSE RobotAppends(r, "move", MoveEv(rpos'[r])) ]_vars

\* Scenario D: a robot five units from the plant has moved onto it with one
\* tick and has issued done with the following one
C10_ScenarioD ==
  /\ rpos["r1"] = PlantStart
  /\ Len(log[1]) >= 6
  /\ log[1][2].payload = OfferEv("r1", Pos(5, 0))
  /\ log[1][5].payload = MoveEv(PlantStart)
  /\ log[1][6].payload = FinishEv(PlantId)

\* the events of the given type on the plant's own tag
PlantEvents(type) == { i \in 1..Len(plog) : plog[i].type = type }

\* the events the step appends to the plant's own tag
PlantAppends == SubSeq(plog', Len(plog) + 1, Len(plog'))

\* the step appends an event of the given type to the plant's own tag
PlantAppendsType(type) ==
  /\ Len(plog') > Len(plog)
  /\ \E i \in 1..Len(PlantAppends) : PlantAppends[i].type = type

\* what a step of the main loop may do: the level it publishes is 100 minus
\* one per 500 ms since lastWatered; died is published only at a level of 0 or
\* less, and then the loop is over; a dead loop stays dead and publishes no
\* level and no died again
HydrationRule ==
  /\ \A i \in 1..Len(PlantAppends) :
       PlantAppends[i].type = "waterLevel"
         => /\ PlantAppends[i].level * 500 <= 50000 - (now - lastWatered)
            /\ PlantAppends[i].level * 500 > 50000 - (now - lastWatered) - 500
            /\ ppc = "run"
  /\ PlantAppendsType("died") => (now - lastWatered >= 50000 /\ ppc' = "dead")
  /\ (ppc = "run" /\ now - lastWatered >= 50000) => (PlantAppendsType("died") /\ ppc' = "dead")
  /\ ppc = "dead" =>
       /\ ppc' = "dead"
       /\ ~PlantAppendsType("waterLevel")
       /\ ~PlantAppendsType("died")

\* C11: the level of a tick is 100 - elapsed/ENDURANCE with ENDURANCE = 500;
\* died is published at a tick exactly if that level is 0 or less, and the
\* main loop never ticks after it; a plant created at 0 that gets no water
\* never sleeps at 50000 or later, and its died carries the time 50000.
C11_DiesAtZero ==
  /\ [][HydrationRule]_vars
  /\ [](lastWatered = 0 =>
          /\ now <= 50000
          /\ now = 50000 => ppc # "sleep"
          /\ \A i \in PlantEvents("died") : plog[i].time = 50000)

\* the plant of Scenario A: created at 0, never watered, dead at 50000 after
\* the level 0 was published
C11_Witness ==
  /\ lastWatered = 0
  /\ now = 50000
  /\ ppc = "dead"
  /\ PlantEvents("waterReceived") = {}
  /\ Len(plog) > 1
  /\ plog[Len(plog)] = [type |-> "died", time |-> 50000]
  /\ plog[Len(plog) - 1] = [type |-> "waterLevel", level |-> 0, time |-> 50000]

\* the plant has published died
PlantDied == PlantEvents("died") # {}

\* the step appends an event of the plant to a protocol instance
PlantIssues ==
  \E q \in Reqs : /\ Len(log'[q]) > Len(log[q])
                  /\ log'[q][Len(log'[q])].by = PlantId

\* C12: once the plant has published died its coordinator appends nothing:
\* no event on its own tag (waterReceived included) and no request or assign
\* to a protocol instance.
C12_DeadPlantSilent == [][ PlantDied => (plog' = plog /\ ~PlantIssues) ]_vars

\* C12, last part: died stays the most recent lifecycle event (created, died)
\* of the plant
C12_DiedStaysLast ==
  PlantDied => \A i \in PlantEvents("created") : \E j \in PlantEvents("died") : i < j

\* runPlant is about to start for a plant whose last lifecycle event is died
StartsDead == ppc = "off" /\ Lifecycle # {} /\ LastLifecycle.type = "died"

\* no requestWater task of the plant is publishing or following
NoTaskRuns == \A q \in Reqs : task[q].pc \notin {"publishing", "following", "received"}

\* C13: a start of runPlant on a plant id whose most recent lifecycle event is
\* died ends the plant's loop at once: it publishes nothing on the plant's
\* tag, appends nothing to a protocol instance and follows no instance, then
\* and ever after.
C13_DeadStaysDead ==
  [][ /\ StartsDead => ( /\ ppc' = "dead"
                         /\ plog' = plog
                         /\ log' = log
                         /\ NoTaskRuns'
                         /\ currentRequest' = None )
      /\ (ppc = "dead" /\ NoTaskRuns) => ( /\ ppc' = "dead"
                                           /\ NoTaskRuns'
                                           /\ plog' = plog
                                           /\ ~PlantIssues ) ]_vars

\* the start has happened on the plant that died at 50000 with its request
\* still open
C13_Witness ==
  /\ ppc = "dead"
  /\ NoTaskRuns
  /\ now = 51000
  /\ plog[Len(plog)] = [type |-> "died", time |-> 50000]
  /\ PlantFold(log[1]).name = "requested"

\* the plant's open-request marker is on an instance its task has seen fail
MarkerOnFailed ==
  \E q \in Reqs : /\ currentRequest = q
                  /\ hasRequested = q
                  /\ task[q].pc = "following"
                  /\ task[q].seen >= 0
                  /\ PlantFold(Prefix(q, task[q].seen)).name = "failed"

\* C14: after the instance a plant has open has failed on a bid timeout the
\* plant, while it lives, clears its open-request marker and asks again with
\* a new request id: it does not die with the marker still on the instance it
\* has seen fail.
C14_FailedRequestRenewed == ~(PlantDied /\ MarkerOnFailed)

\* the plant's machine offers the command cmd in the state of the given name
PlantCan(name, cmd) == \E c \in PlantCommands(name) : c.cmd = cmd

\* C15: while an instance is assigned the plant can issue fail2, so that an
\* instance whose chosen robot never accepts can be failed by the plant.
C15_PlantCanFail2 ==
  \A q \in Reqs : PlantFold(log[q]).name = "assigned" => PlantCan("assigned", "fail2")

\* C15, the fold: a fail2 event on an assigned instance folds to failed for
\* the plant and for the robots
C15_Fail2Folds ==
  \A k \in 1..Len(log[1]) :
    (log[1][k].type = "fail2" /\ PlantFold(Prefix(1, k - 1)).name = "assigned")
      => /\ PlantFold(Prefix(1, k)).name = "failed"
         /\ RobotFold(Prefix(1, k)).name = "failed"

\* an assigned instance received fail2
C15_Fail2Witness ==
  \E k \in 1..Len(log[1]) :
    /\ log[1][k].type = "fail2"
    /\ PlantFold(Prefix(1, k - 1)).name = "assigned"
    /\ RobotFold(Prefix(1, k - 1)).name = "assigned"

\* the time of the finish event of instance q
FinishTime(q) ==
  log[q][CHOOSE i \in 1..Len(log[q]) : log[q][i].type = "finish"].time

\* the task of request q passes from the state `from` to the state `to`
TaskGoes(q, from, to) == task[q].pc = from /\ task'[q].pc = to

\* C16: when the plant's task sees its instance done it publishes
\* waterReceived; when that publish has returned, lastWatered is the time of
\* the finish event and the open-request marker is cleared; a tick of the live
\* plant after that, at a level below the threshold, makes a new request id.
C16_DoneResetsPlant ==
  [][ \A q \in Reqs :
        /\ (task[q].pc = "following" /\ PlantFold(Prefix(q, task'[q].seen)).name = "done")
             => /\ TaskGoes(q, "following", "received")
                /\ plog' = Append(plog, [type |-> "waterReceived", time |-> now])
        /\ TaskGoes(q, "following", "received")
             => PlantFold(Prefix(q, task'[q].seen)).name = "done"
        /\ TaskGoes(q, "received", "ended")
             => /\ lastWatered' = FinishTime(q)
                /\ currentRequest' = None
                /\ hasRequested' = None
        /\ (ppc = "run" /\ ppc' = "sleep" /\ task[q].pc = "ended" /\ currentRequest = None
              /\ now - lastWatered > 25000)
             => /\ nextReq' = nextReq + 1
                /\ \A p \in Reqs : task[p].pc # "none" => p # nextReq'
                /\ task'[nextReq'].pc = "publishing" ]_vars

\* the plant was watered at 26000 and saw it at 28000; at 52000 it has asked
\* again, with request id 2
C16_Witness ==
  /\ task[1].pc = "ended"
  /\ lastWatered = 26000
  /\ \E i \in PlantEvents("waterReceived") : plog[i].time = 28000
  /\ now = 52000
  /\ nextReq = 2
  /\ task[2].pc = "following"
  /\ currentRequest = 2

\* the step is a tick of the live plant (an iteration of the main loop that
\* does not end it)
LiveTick == ppc = "run" /\ ppc' = "sleep"

\* a request of the plant is open: published or being published and not yet
\* completed
RequestOpen == \E q \in Reqs : task[q].pc \in {"publishing", "following", "received"}

\* C17: a tick of the live plant starts a request exactly if the level is
\* below the threshold and no request is open; no request is started at a
\* level of 50 or more, nor while a request is open, nor outside a tick.
C17_RequestIffLowAndIdle ==
  [][ /\ nextReq' # nextReq => LiveTick
      /\ LiveTick => ( nextReq' # nextReq <=> (WaterLevel < 50 /\ ~RequestOpen) ) ]_vars

\* C17 with the marker the main loop tests in place of the open request
C17_RequestIffLowAndUnmarked ==
  [][ /\ nextReq' # nextReq => (LiveTick /\ nextReq' = nextReq + 1)
      /\ LiveTick => ( nextReq' # nextReq <=> (WaterLevel < 50 /\ currentRequest = None) ) ]_vars

\* a tick at the level 48 with a request id made a tick earlier, whose
\* waterRequested is still being published
C17_Witness ==
  /\ ppc = "run"
  /\ WaterLevel < 50
  /\ currentRequest = None
  /\ task[1].pc = "publishing"
  /\ task[1].at < now

\* the waterLevel events i < j of the plant's tag are successive ticks
SuccessiveLevels(i, j) ==
  /\ i \in PlantEvents("waterLevel")
  /\ j \in PlantEvents("waterLevel")
  /\ i < j
  /\ \A k \in PlantEvents("waterLevel") : ~(i < k /\ k < j)

\* a waterReceived event lies between the events i and j of the plant's tag
WateredBetween(i, j) == \E k \in PlantEvents("waterReceived") : i < k /\ k < j

\* C18: the level published at a tick is not above the level of the tick
\* before unless a waterReceived event lies between the two.
C18_LevelsNeverRise ==
  \A i, j \in 1..Len(plog) :
    (SuccessiveLevels(i, j) /\ ~WateredBetween(i, j)) => plog[j].level <= plog[i].level

\* C18, the coordinator after watering: the first level published after a
\* waterReceived event is exactly 100
C18_FullAfterWater ==
  \A i, j \in 1..Len(plog) :
    (SuccessiveLevels(i, j) /\ WateredBetween(i, j)) => plog[j].level = 100

\* C18, the follower: its level is exactly 100 right after a waterReceived
\* event, and between two events it never rises otherwise
C18_FollowerResets ==
  \A k \in 1..Len(plog) :
    /\ plog[k].type = "waterReceived" => FollowPlant(SubSeq(plog, 1, k)).waterLevel = 100
    /\ plog[k].type \notin {"waterReceived", "waterLevel"}
         => FollowPlant(SubSeq(plog, 1, k)).waterLevel = FollowPlant(SubSeq(plog, 1, k - 1)).waterLevel

\* a follower has seen a waterReceived event after a level below 50
C18_FollowerWitness ==
  \E k \in PlantEvents("waterReceived") :
    /\ FollowPlant(SubSeq(plog, 1, k - 1)).waterLevel < 50
    /\ FollowPlant(SubSeq(plog, 1, k)).waterLevel = 100

\* the waterRequested and waterReceived events of the plant's tag
Waterings == PlantEvents("waterRequested") \cup PlantEvents("waterReceived")

\* the most recent of them
LastWatering == plog[CHOOSE i \in Waterings : \A j \in Waterings : j <= i]

\* the step is the start of the plant process on a plant that has not died
StartsAlive == ppc = "off" /\ ppc' # "off" /\ ~StartsDead

\* C19: a plant that restarts when the most recent of its waterRequested and
\* waterReceived events is a waterRequested follows the instance of that
\* request id again; when it is a waterReceived, it follows no instance and
\* lastWatered is the time of that event.
C19_RestartResumes ==
  [][ (StartsAlive /\ Waterings # {}) =>
        IF LastWatering.type = "waterRequested"
        THEN /\ task'[LastWatering.reqId].pc = "following"
             /\ currentRequest' = LastWatering.reqId
             /\ hasRequested' = LastWatering.reqId
             /\ nextReq' = nextReq
        ELSE /\ NoTaskRuns'
             /\ currentRequest' = None
             /\ lastWatered' = LastWatering.time ]_vars

\* C19 for the starts at which the most recent watering event is the last
\* event on the plant's tag
C19_RestartResumesLast ==
  [][ (StartsAlive /\ Waterings # {} /\ LatestWatering # 0) =>
        IF LastWatering.type = "waterRequested"
        THEN /\ task'[LastWatering.reqId].pc = "following"
             /\ currentRequest' = LastWatering.reqId
             /\ hasRequested' = LastWatering.reqId
             /\ nextReq' = nextReq
        ELSE /\ NoTaskRuns'
             /\ currentRequest' = None
             /\ lastWatered' = LastWatering.time ]_vars

\* the restarted plant has issued request for the id 1 it had published
\* before it stopped
C19_Witness ==
  /\ \E i \in 1..Len(plog) : plog[i] = [type |-> "waterRequested", reqId |-> 1, time |-> 26000]
  /\ task[1] = [pc |-> "following", seen |-> 0, at |-> 26000]
  /\ currentRequest = 1
  /\ nextReq = 1
  /\ Len(log[1]) = 1
  /\ log[1][1].type = "request"
  /\ log[1][1].payload.reqId = 1
  /\ log[1][1].time = 26000

\* robot r is mid-mission on instance q without a move since: it has noted
\* the mission on its own tag, the instance is moving with r as its robot and
\* its last event is r's accept
MidMission(r, q) ==
  /\ q # None
  /\ LastMission(r) = q
  /\ RobotFold(log[q]).name = "moving"
  /\ RobotFold(log[q]).robotId = r
  /\ log[q][Len(log[q])].type = "accept"

\* the step starts the process of robot r
RobotStarts(r) == ~active[r] /\ active'[r]

\* C20: a robot that is started again mid-mission, with the mission noted on
\* its own tag and no move since, has that instance as its mission again.
C20_RestartResumesMission ==
  [][ \A r \in Robots : \A q \in Reqs :
        (RobotStarts(r) /\ MidMission(r, q)) => mission'[r] = q ]_vars

\* C20, second part: no robot has two offers in an instance
C20_NoSecondOffer ==
  \A q \in Reqs : \A i, j \in 1..Len(log[q]) :
    (log[q][i].type = "offer" /\ log[q][j].type = "offer" /\ log[q][i].by = log[q][j].by)
      => i = j

\* the robot has been started again mid-mission and is running
C20_Restarted ==
  /\ active["r1"]
  /\ MidMission("r1", 1)
  /\ mission["r1"] = None
  /\ Len(rlog["r1"]) = 2

\* what robot r tracks live
RobotLive(r) == [pos |-> rpos[r], mission |-> mission[r]]

\* what the plant tracks live
PlantLive == [pos |-> position, mission |-> hasRequested]

\* the position and mission a follower of the plant derives
PlantReplay ==
  LET born == PlantEvents("created") IN
  [pos |-> IF born = {} THEN position ELSE plog[CHOOSE i \in born : \A j \in born : j <= i].pos,
   mission |-> FollowPlant(plog).mission]

\* C21: at any point of the run of a robot or of the plant, replaying its own
\* events from the empty state gives the position and the mission it tracks
\* live.
C21_ReplayEqualsLive ==
  /\ \A r \in Robots : active[r] => FollowRobot(rlog[r], rpos[r]) = RobotLive(r)
  /\ ppc \in {"run", "sleep"} => PlantReplay = PlantLive

\* C21 for the position of a robot alone
C21_ReplayPosition ==
  \A r \in Robots : active[r] => FollowRobot(rlog[r], rpos[r]).pos = rpos[r]

\* C21 for the plant alone, at the points where no publish of its task is in
\* flight and its instance has not failed
C21_PlantReplay ==
  (ppc \in {"run", "sleep"} /\ ~(\E q \in Reqs : task[q].pc \in {"publishing", "received"}))
    => PlantReplay = PlantLive

\* C22: a rejected publish or query does not end the plant's main loop: the
\* loop is never left through a failed interaction with the log, it goes on
\* to its next sleep and tick.
C22_LoopSurvivesFailure == ppc # "crashed"

\* C22 as a step: from a running loop the next state of the loop is its sleep
\* or, at a level of 0 or less, its death
C22_TickThenSleep ==
  [][ (ppc = "run" /\ ppc' # "run") => ppc' \in {"sleep", "dead"} ]_vars

\* the state of instance q in the latest fold of the agent named by: the
\* plant's runner or the runner of the robot's mission
LatestFold(by, q) ==
  IF by = PlantId THEN PlantFold(Prefix(q, task'[q].seen)).name
  ELSE RobotFold(Prefix(q, rseen'[by])).name

\* the event types of the commands an agent has in the state of that name
CommandTypes(by, name) ==
  { c.logType[1] : c \in IF by = PlantId THEN PlantCommands(name) ELSE RobotCommands(name) }

\* a timer of robot r is armed on a snapshot that the robot's fold has left
StaleTimer(r, t) ==
  /\ t \in timers[r]
  /\ rseen[r] >= 0
  /\ Expired("robot", t.req, t.snap, rseen[r])

\* C23: every command an agent emits is a command of the state of its latest
\* fold (move and finish from moving, fail and offer from requested, the
\* plant's assign from requested), a robot emits on its mission only, and a
\* timeout that finds its snapshot left behind by the fold is dropped without
\* any effect.
C23_CommandsOnLatestFold ==
  [][ /\ \A q \in Reqs :
           log'[q] # log[q] =>
             LET e == log'[q][Len(log'[q])] IN
             /\ log'[q] = Append(log[q], e)
             /\ e.type \in CommandTypes(e.by, LatestFold(e.by, q))
             /\ e.by # PlantId => mission[e.by] = q
      /\ \A r \in Robots : \A t \in timers[r] :
           TimerExpires(r, t) /\ StaleTimer(r, t) =>
             /\ log' = log
             /\ rlog' = rlog
             /\ rpos' = rpos
             /\ mission' = mission ]_vars

\* a timer of a robot is still armed on requested while the robot's latest
\* fold of its mission is assigned or moving
C23_Witness ==
  \E r \in Robots : \E t \in timers[r] :
    /\ mission[r] = t.req
    /\ StaleTimer(r, t)
    /\ RobotFold(Prefix(t.req, rseen[r])).name \in {"assigned", "moving"}

\* the agent named by appends an event to an instance or to its own tag
AgentAppends(by) ==
  \/ \E q \in Reqs : /\ Len(log'[q]) > Len(log[q])
                     /\ log'[q][Len(log'[q])].by = by
  \/ by = PlantId /\ plog' # plog
  \/ by \in Robots /\ rlog'[by] # rlog[by]

\* C24: once the liveness flag of an agent is cleared (the plant stopped, a
\* robot not active), that agent appends no further event: no event of an
\* instance by it and none on its own tag.
C24_SilentAfterCleanup ==
  [][ /\ ppc = "stopped" => ~AgentAppends(PlantId)
      /\ \A r \in Robots : ~active[r] /\ ~active'[r] => ~AgentAppends(r) ]_vars

\* C24 for the robots alone
C24_RobotSilentAfterCleanup ==
  [][ \A r \in Robots : ~active[r] /\ ~active'[r] => ~AgentAppends(r) ]_vars

\* the subsequence of evs of the events the robot machine has a reaction for
\* in the state current when they are folded
RECURSIVE RobotMatching(_)
RobotMatching(evs) ==
  IF evs = <<>> THEN <<>>
  ELSE LET before == SubSeq(evs, 1, Len(evs) - 1)
           e == evs[Len(evs)]
       IN IF RobotReacts(RobotFold(before), e)
          THEN Append(RobotMatching(before), e) ELSE RobotMatching(before)

\* the same for the plant machine
RECURSIVE PlantMatching(_)
PlantMatching(evs) ==
  IF evs = <<>> THEN <<>>
  ELSE LET before == SubSeq(evs, 1, Len(evs) - 1)
           e == evs[Len(evs)]
       IN IF PlantReacts(PlantFold(before), e)
          THEN Append(PlantMatching(before), e) ELSE PlantMatching(before)

\* the reactions applied to every event of evs in turn, none skipped
RECURSIVE RobotApply(_)
RobotApply(evs) ==
  IF evs = <<>> THEN RobotInitial
  ELSE RobotReduce(RobotApply(SubSeq(evs, 1, Len(evs) - 1)), evs[Len(evs)])

RECURSIVE PlantApply(_)
PlantApply(evs) ==
  IF evs = <<>> THEN PlantInitial
  ELSE PlantReduce(PlantApply(SubSeq(evs, 1, Len(evs) - 1)), evs[Len(evs)])

RECURSIVE OfferOrder(_, _)
OfferOrder(q, k) ==
  IF k = 0 THEN <<>>
  ELSE IF log[q][k].type = "offer" THEN Append(OfferOrder(q, k - 1), log[q][k].payload.robotId)
  ELSE OfferOrder(q, k - 1)

\* the ids of a bid list of the plant's fold
BidIds(robots) == [i \in 1..Len(robots) |-> robots[i].id]

\* agents that have folded the same prefix of instance q
SamePrefix(q, k) ==
  { r \in Robots : mission[r] = q /\ rseen[r] = k }
    \cup (IF task[q].pc = "following" /\ task[q].seen = k THEN {PlantId} ELSE {})

\* C26: the folders of an instance, the plant's machine and the robots'
\* machine, compute the same state from the same prefix of its events, and in
\* requested the same bid list in the same order, which is the order of the
\* offers in the log whichever robot's offer came first.
C26_FoldDeterminism ==
  \A q \in Reqs : \A k \in 0..Len(log[q]) :
    LET p == PlantFold(Prefix(q, k))
        r == RobotFold(Prefix(q, k))
    IN /\ p.name = r.name
       /\ p.name = "requested" => /\ BidIds(p.robots) = r.robots
                                  /\ r.robots = OfferOrder(q, k)
       /\ p.name \in {"assigned", "moving"} => p.robotId = r.robotId

\* both robots and the plant have folded the same prefix, which holds the
\* offer of r2 before the offer of r1
C26_Witness ==
  /\ Len(log[1]) >= 3
  /\ SamePrefix(1, 3) = Robots \cup {PlantId}
  /\ RobotFold(Prefix(1, 3)).robots = <<"r2", "r1">>
  /\ BidIds(PlantFold(Prefix(1, 3)).robots) = <<"r2", "r1">>

\* C27: while an instance stays in requested its bid list only grows: an
\* offer event adds exactly one entry at the end, for the robot and position
\* it names, also if that robot is listed already; any other event leaves
\* the list as it is; no entry is removed or moved.
C27_BidListGrows ==
  [][ \A q \in Reqs :
        Len(log'[q]) = Len(log[q]) + 1 =>
          LET e == log'[q][Len(log'[q])]
              p == PlantFold(log[q])
              p2 == PlantFold(log'[q])
              r == RobotFold(log[q])
              r2 == RobotFold(log'[q])
          IN /\ p.name = "requested" /\ p2.name = "requested" =>
                  p2.robots = IF e.type = "offer"
                              THEN Append(p.robots, [id |-> e.payload.robotId, pos |-> e.payload.position])
                              ELSE p.robots
             /\ r.name = "requested" /\ r2.name = "requested" =>
                  r2.robots = IF e.type = "offer" THEN Append(r.robots, e.payload.robotId)
                              ELSE r.robots ]_vars

\* the bid of r2 at distance 3 is listed before the later bid of r1 at
\* distance 0
C27_Witness ==
  /\ PlantFold(log[1]).name = "requested"
  /\ PlantFold(log[1]).robots = << [id |-> "r2", pos |-> Pos(0, 3)], [id |-> "r1", pos |-> Pos(0, 0)] >>
  /\ RobotFold(log[1]).robots = << "r2", "r1" >>
  /\ ShorterThan(Direction(Pos(0, 0), PlantStart), Direction(Pos(0, 3), PlantStart))

\* a robot that has offered twice is listed twice
C27_TwiceWitness ==
  /\ PlantFold(log[1]).name = "requested"
  /\ RobotFold(log[1]).robots = << "r1", "r1" >>

\* how often robot r is in the bid list the robots' machine folds from evs
TimesListed(r, evs) ==
  LET s == RobotFold(evs) IN
  IF s.name # "requested" THEN 0
  ELSE Cardinality({ i \in 1..Len(s.robots) : s.robots[i] = r })

\* robot r appends an offer to instance q in this step
Offers(r, q) ==
  /\ Len(log'[q]) = Len(log[q]) + 1
  /\ log'[q][Len(log'[q])].type = "offer"
  /\ log'[q][Len(log'[q])].by = r

\* C28: a robot offers on its mission only, from a folded state that is
\* requested and does not list it, and the bid list of every instance holds
\* every robot at most once.
C28_OneBidEach ==
  [][ \A q \in Reqs : \A r \in Robots :
        /\ Offers(r, q) =>
             /\ mission[r] = q
             /\ RobotFold(Prefix(q, rseen'[r])).name = "requested"
             /\ TimesListed(r, Prefix(q, rseen'[r])) = 0
        /\ TimesListed(r, log'[q]) <= 1 ]_vars

\* C28, the step alone: a robot offers only from a folded state that is
\* requested and does not list it
C28_OffersWhenUnlisted ==
  [][ \A q \in Reqs : \A r \in Robots :
        Offers(r, q) =>
          /\ mission[r] = q
          /\ RobotFold(Prefix(q, rseen'[r])).name = "requested"
          /\ TimesListed(r, Prefix(q, rseen'[r])) = 0 ]_vars

\* r1 has offered, r2's offer was folded after it, and r1 has then observed
\* the list that holds its own bid and r2's, and armed its timeout on it
C28_Witness ==
  /\ Len(log[1]) = 3
  /\ log[1][2].payload = OfferEv("r1", Pos(0, 0))
  /\ log[1][3].payload = OfferEv("r2", Pos(0, 3))
  /\ mission["r1"] = 1 /\ rseen["r1"] = 3
  /\ waitForAccept["r1"] = [req |-> 1, snap |-> 3]
  /\ TimesListed("r1", log[1]) = 1 /\ TimesListed("r2", log[1]) = 1

\* robot r, on mission q, is handed a state by its runner in this step, and
\* that state is assigned
ObservesAssigned(r, q) ==
  /\ active[r]
  /\ mission[r] = q
  /\ rseen'[r] # rseen[r] /\ rseen'[r] >= 0
  /\ RobotFold(Prefix(q, rseen'[r])).name = "assigned"

\* C29: a robot that observes its mission assigned to itself appends accept
\* with its current position to the instance and a mission event naming the
\* instance to its own tag, and stays on the mission; a robot that observes
\* the mission assigned to another robot appends nothing, leaves the mission
\* with no timer of the mission loop and no movement interval set, and is
\* without a mission, which is the state its scan starts from; accept, move
\* and finish are appended by a robot to its mission only.
C29_AssignedAcceptOrAbandon ==
  [][ \A r \in Robots : \A q \in Reqs :
        /\ ObservesAssigned(r, q) =>
             IF RobotFold(Prefix(q, rseen'[r])).robotId = r
             THEN /\ log'[q] = Append(log[q], Event(AcceptEv(rpos[r]), "accept", now, r))
                  /\ rlog'[r] = Append(rlog[r], [type |-> "mission", mission |-> q])
                  /\ mission'[r] = q
                  /\ rpos'[r] = rpos[r]
             ELSE /\ log' = log
                  /\ rlog' = rlog
                  /\ mission'[r] = None
                  /\ ~moving'[r].on
                  /\ waitForAccept'[r] = NoTimer
        /\ (/\ Len(log'[q]) = Len(log[q]) + 1
            /\ log'[q][Len(log'[q])].by = r
            /\ log'[q][Len(log'[q])].type \in {"accept", "move", "finish"}) => mission[r] = q ]_vars

\* r2 was chosen and has accepted from its position and recorded the mission;
\* r1, which had bid as well, has observed the assignment and is without a
\* mission and without a movement interval
C29_Witness ==
  /\ Len(log[1]) >= 5
  /\ \E i \in 2..3 : log[1][i].payload = OfferEv("r1", Pos(0, 0))
  /\ log[1][4].payload = AssignEv("r2")
  /\ log[1][5] = Event(AcceptEv(Pos(0, 3)), "accept", 26000, "r2")
  /\ rlog["r2"][Len(rlog["r2"])] = [type |-> "mission", mission |-> 1]
  /\ mission["r2"] = 1
  /\ mission["r1"] = None /\ ~moving["r1"].on /\ rseen["r1"] = 4

\* robot r, running and without a mission, takes a mission in this step
Adopts(r) == active[r] /\ active'[r] /\ mission[r] = None /\ mission'[r] # None

\* the plant's latest lifecycle event is died
PlantHasDied ==
  \E i \in 1..Len(plog) :
    /\ plog[i].type = "died"
    /\ \A j \in (i + 1)..Len(plog) : plog[j].type # "created"

\* the i-th request event of the log is of an instance that is requested,
\* of a plant that has not died, and is at most (less than) age ms old
Candidate(i, age) ==
  /\ now - waterRequest[i].event.time <= age
  /\ ~PlantHasDied
  /\ RobotFold(log[waterRequest[i].req]).name = "requested"

C30_AgedWitness ==
  /\ now = 86000
  /\ Len(waterRequest) = 2
  /\ waterRequest[1].req = 1 /\ waterRequest[1].event.time = 26000
  /\ RobotFold(log[1]).name = "requested"
  /\ mission["r1"] = 2 /\ mission["r2"] = 2

\* the plant has died and no robot takes its requested instances
C30_DeadWitness ==
  /\ PlantHasDied
  /\ \E q \in Reqs : RobotFold(log[q]).name = "requested"
  /\ \A r \in Robots : mission[r] = None

\* the reports of an id alternate, add first
Alternates(calls) ==
  \A i \in 1..Len(calls) : calls[i] = IF i % 2 = 1 THEN "add" ELSE "del"

\* an event of id is delivered in this step while id is not in the map
FirstSeen(id) == set[id] = -1 /\ heard'[id] # heard[id]

\* the interval runs in this step and finds the newest event of id, which is
\* in the map, more than GoneMs old
FoundGone(id) == now' = now + CheckMs /\ set[id] # -1 /\ now' - heard[id] > GoneMs

\* C31: findIds calls addCb for an id exactly when an event of it is
\* delivered while it is not in the map (its first event, or the first after
\* it was reported gone), and delCb exactly at a check, one a second, that
\* finds its newest event more than 60 s old; so an id with an event in the
\* last 60 s is not reported gone, and the reports of an id alternate,
\* starting with add.
C31_PresenceReports ==
  [][ \A id \in TrackIds :
        /\ FirstSeen(id) <=> reported'[id] = Append(reported[id], "add")
        /\ FoundGone(id) <=> reported'[id] = Append(reported[id], "del")
        /\ reported'[id] # reported[id] => FirstSeen(id) \/ FoundGone(id)
        /\ Alternates(reported'[id])
        /\ (set'[id] # -1) <=> (Len(reported'[id]) % 2 = 1)
        /\ set'[id] # -1 => set'[id] = heard'[id] ]_vars

\* p1 was seen at 0 and at 1000, found gone by the check at 62000, and seen
\* again; r1, seen at 60000, is still present at 120000
C31_Witness ==
  /\ reported[PlantId] = <<"add", "del", "add">>
  /\ reported["r1"] = <<"add">>
  /\ heard["r1"] = 60000
  /\ now = 120000

\* two ids are reported gone by one check
C31_BothGone ==
  /\ reported[PlantId] = <<"add", "del">>
  /\ reported["r1"] = <<"add", "del">>
  /\ heard[PlantId] = heard["r1"]

\* the robot named in the assign event of instance q (None: not assigned)
AssignedRobot(q) ==
  LET s == RobotFold(log[q]) IN
  IF s.name \in {"assigned", "moving"} THEN s.robotId ELSE "nobody"

\* C32: accept, move and finish are appended to an instance only by the robot
\* its assign names, and no other robot has the movement interval of that
\* instance running, whatever states its runner has handed it.
C32_OnlyAssignedRobotActs ==
  [][ /\ \A q \in Reqs :
           (/\ Len(log'[q]) = Len(log[q]) + 1
            /\ log'[q][Len(log'[q])].type \in {"accept", "move", "finish"})
             => log'[q][Len(log'[q])].by = AssignedRobot(q)
      /\ \A r \in Robots :
           (mission'[r] # None /\ moving'[r].on) =>
             RobotFold(Prefix(mission'[r], rseen'[r])).robotId = r ]_vars

\* C32, the events alone
C32_OnlyAssignedRobotAppends ==
  [][ \A q \in Reqs :
        (/\ Len(log'[q]) = Len(log[q]) + 1
         /\ log'[q][Len(log'[q])].type \in {"accept", "move", "finish"})
          => log'[q][Len(log'[q])].by = AssignedRobot(q) ]_vars

\* r1 is assigned and has accepted; r2, which had bid too, has appended a
\* move or the finish of the instance
C32_Intruder ==
  /\ Len(log[1]) >= 6
  /\ \E i \in 1..Len(log[1]) : log[1][i].payload = AssignEv("r1")
  /\ \E i \in 1..Len(log[1]) : log[1][i].type \in {"move", "finish"} /\ log[1][i].by = "r2"

\* the two folds of the same events describe the same protocol state
SameProtocolState(p, r) ==
  /\ p.name = r.name
  /\ p.name \in {"requested", "assigned", "moving"} =>
       /\ p.plantId = r.plantId
       /\ p.position = r.plantPos
  /\ p.name = "requested" => BidIds(p.robots) = r.robots
  /\ p.name \in {"assigned", "moving"} => p.robotId = r.robotId
  /\ p.name = "moving" => p.robot = r.robotPos

\* C33: for every sequence of events on one instance the fold of the plant's
\* machine and the fold of the robots' machine are in the same protocol state:
\* the same state name, plant id and position, assigned robot, last robot
\* position and bid ids; after fail2 or fail3 both folds are failed.
C33_FoldsAgree ==
  \A k \in 0..Len(log[1]) :
    SameProtocolState(PlantFold(Prefix(1, k)), RobotFold(Prefix(1, k)))

\* the folds agree on every sequence that holds no fail3 event
C33_FoldsAgreeWithoutFail3 ==
  (\A i \in 1..Len(log[1]) : log[1][i].type # "fail3")
    => \A k \in 0..Len(log[1]) :
         SameProtocolState(PlantFold(Prefix(1, k)), RobotFold(Prefix(1, k)))

\* a fail3 event arrives while the instance is moving
C33_Fail3WhileMoving ==
  /\ Len(log[1]) >= 5
  /\ log[1][Len(log[1])].type = "fail3"
  /\ RobotFold(Prefix(1, Len(log[1]) - 1)).name = "moving"

\* robot r has an offer in the log of instance q
HasBid(r, q) ==
  \E i \in 1..Len(log[q]) : log[q][i].type = "offer" /\ log[q][i].payload.robotId = r

\* instance q holds a bid of r and is requested, or assigned to r, or moving
\* with r
Engaged(r, q) ==
  /\ HasBid(r, q)
  /\ \/ RobotFold(log[q]).name = "requested"
     \/ AssignedRobot(q) = r

\* this step appends an offer of r to instance q
Bids(r, q) ==
  /\ Len(log'[q]) = Len(log[q]) + 1
  /\ log'[q][Len(log'[q])].type = "offer"
  /\ log'[q][Len(log'[q])].payload.robotId = r

\* C34: no robot is the assigned robot of two instances that are both neither
\* done nor failed, also when robots are shut down and started again.
C34_OneAssignmentEach ==
  \A r \in Robots : \A q1, q2 \in Reqs :
    AssignedRobot(q1) = r /\ AssignedRobot(q2) = r => q1 = q2

\* C34: a robot does not bid on an instance while another instance that holds
\* a bid of it is requested, assigned to it or moving, also when robots are
\* shut down and started again.
C34_OneBidAtATime ==
  [][ \A r \in Robots : \A q \in Reqs :
        Bids(r, q) => \A q2 \in Reqs \ {q} : ~Engaged(r, q2) ]_vars

\* a robot has bid on both instances
C34_BidOnBoth == \E r \in Robots : HasBid(r, 1) /\ HasBid(r, 2)

\* instance q is requested, assigned or moving
Pending(q) == RobotFold(log[q]).name \in {"requested", "assigned", "moving"}

\* some robot has bid on instance q
HasBidder(q) == \E r \in Robots : HasBid(r, q)

\* no agent has a step left and no timer is armed
Quiescent == Settled /\ \A q \in Reqs : task[q].pc # "received"

\* C35: without crashes and shutdowns, an instance that is requested and has
\* a bidder does not come to rest before it is done or failed: whenever no
\* agent has a step left and no timer is armed, it is no longer requested,
\* assigned or moving.
C35_NoRestBeforeTerminal ==
  \A q \in Reqs : Quiescent /\ HasBidder(q) => ~Pending(q)

\* the sum of f over the set S
RECURSIVE Total(_, _)
Total(f, S) ==
  IF S = {} THEN 0
  ELSE LET x == CHOOSE x \in S : TRUE IN f[x] + Total(f, S \ {x})

\* how far requestWater has come
Stage(pc) ==
  CASE pc = "none" -> 0 [] pc = "publishing" -> 1 [] pc = "following" -> 2
    [] pc = "received" -> 3 [] OTHER -> 4

\* what has happened so far: events appended, states delivered to the plant
\* and to the robots, timers fired, missions adopted, destinations reached
Progress ==
  100 * Total([q \in Reqs |-> Len(log[q])], Reqs)
  + 10 * Total([q \in Reqs |-> task[q].seen + Stage(task[q].pc)], Reqs)
  + 10 * Total([r \in Robots |-> rseen[r]], Robots)
  + Total([r \in Robots |-> (IF mission[r] # None THEN 1 ELSE 0)
                            + (IF moving[r].on THEN 1 ELSE 0)
                            + (IF rpos[r] = PlantStart THEN 1 ELSE 0)
                            - Cardinality(timers[r])], Robots)

\* C35: without crashes and shutdowns no agent goes round in circles: every
\* step of an agent or a timer adds to what has happened so far, which is
\* bounded, so that every run comes to rest.
C35_EveryStepAdvances == [][Progress' > Progress]_vars

\* the instance has come to rest done, after a bid
C35_Witness ==
  /\ Quiescent
  /\ HasBidder(1)
  /\ RobotFold(log[1]).name = "done"

\* the instance has come to rest failed, after a bid
C35_FailedWitness ==
  /\ Quiescent
  /\ HasBidder(1)
  /\ RobotFold(log[1]).name = "failed"

\* a runner has a state to yield, a timer is armed or a robot has a request
\* to pick up
Imminent ==
  \/ \E q \in Reqs : \/ task[q].pc = "received"
                     \/ task[q].pc = "following" /\ \E k \in Views(q) : Yields("plant", q, task[q].seen, k)
  \/ \E r \in Robots :
       \/ timers[r] # {}
       \/ active[r] /\ mission[r] = None /\ ScanPick # None
       \/ active[r] /\ mission[r] # None
            /\ \E k \in Views(mission[r]) : Yields("robot", mission[r], rseen[r], k)

\* the next run of the movement interval of r changes something: the robot is
\* not yet at the plant and moves, or no command of it is in flight and it
\* issues one
TickAdvances(r) ==
  /\ moving[r].on
  /\ mission[r] # None
  /\ RobotFold(Prefix(mission[r], rseen[r])).name = "moving"
  /\ \/ ~LenLess(Direction(rpos[r], moving[r].plantPos), 1)
     \/ ~rlock[r]

\* C35: a robot whose movement interval is all that is left to run makes a
\* step with it (it moves, or it reports its arrival): the interval does not
\* run idle while its instance is moving.
C35_IntervalAdvances ==
  ~Quiescent /\ ~Imminent => \E r \in Robots : TickAdvances(r)

\* only the movement interval of a robot is left to run
C35_IntervalWitness == ~Quiescent /\ ~Imminent /\ RobotFold(log[1]).name = "moving"

\* C35: under weak fairness of the steps of the agents and timers, without
\* crashes and shutdowns, an instance that is requested and has a bidder ends
\* done or failed: every step adds to a bounded measure of what has happened,
\* so every run comes to rest; as long as the run has not come to rest a step
\* that changes the state is enabled; and at rest no instance with a bidder is
\* requested, assigned or moving.
C35_EndsDoneOrFailed ==
  /\ []C35_NoRestBeforeTerminal
  /\ []C35_IntervalAdvances
  /\ C35_EveryStepAdvances

\* the square of the distance of robot r from the plant it moves to
ToGo(r) == Len2(Direction(rpos[r], moving[r].plantPos))

\* the interval of r runs on a state that is moving and r stands at the plant
Arrived(r) ==
  /\ moving[r].on
  /\ mission[r] # None
  /\ RobotFold(Prefix(mission[r], rseen[r])).name = "moving"
  /\ LenLess(Direction(rpos[r], moving[r].plantPos), 1)

\* r has issued done on its mission
DoneIssued(r) ==
  \E i \in 1..Len(log[mission[r]]) :
    log[mission[r]][i].type = "finish" /\ log[mission[r]][i].by = r

\* C36, the distance: on every tick on which a moving robot changes its
\* position its distance to the plant gets strictly smaller.
C36_DistanceDecreases ==
  [][ \A r \in Robots :
        moving[r].on /\ rpos'[r] # rpos[r] /\ moving'[r] = moving[r]
          => Len2(Direction(rpos'[r], moving[r].plantPos)) < ToGo(r) ]_vars

\* C36, the bound: a robot that starts at distance d is at the plant after
\* ceil(d / VELOCITY) ticks (C10_PositionRule: VELOCITY per tick, the rest in
\* one), and the tick it takes at the plant issues done, so that done is
\* issued after at most ceil(d / VELOCITY) + 1 ticks.
C36_DoneWithinBound ==
  \A r \in Robots : Arrived(r) /\ ~DoneIssued(r) => ~rlock[r]

\* C36, the end: once the robot has seen its mission done or failed its
\* interval is cleared, and its position does not change while it has no
\* mission or its mission is done or failed.
C36_StopsAtTheEnd ==
  /\ [](\A r \in Robots : mission[r] = None => ~moving[r].on)
  /\ [][ \A r \in Robots :
           (mission[r] = None \/ RobotFold(log[mission[r]]).name \in {"done", "failed"})
             /\ active[r] /\ active'[r]
             => rpos'[r] = rpos[r] ]_vars

\* the robot stands at the plant and the command of its last tick is in flight
C36_IdleTick == \E r \in Robots : Arrived(r) /\ ~DoneIssued(r) /\ rlock[r]

\* the position of the last move event on the own tag of r, or that of its
\* created event if it has none
LastRecorded(r) ==
  LET moves == RobotEvents(r, "move")
      born == RobotEvents(r, "created")
  IN IF moves # {}
     THEN rlog[r][CHOOSE i \in moves : \A j \in moves : j <= i].payload.position
     ELSE rlog[r][CHOOSE i \in born : \A j \in born : i <= j].pos

\* C37: whenever a running robot changes its position during a mission, a
\* move event with exactly that position is appended to the instance and to
\* the robot's own tag; a tick whose move could not be issued leaves the
\* position alone.
C37_EveryStepRecorded ==
  [][ \A r \in Robots :
        active[r] /\ active'[r] /\ rpos'[r] # rpos[r]
          => /\ RobotAppends(r, "move", MoveEv(rpos'[r]))
             /\ rlog'[r] = Append(rlog[r], Event(MoveEv(rpos'[r]), "move", now, r)) ]_vars

\* C37: the live position of a running robot is the position of the last
\* move event it has appended, or its created position if it has appended
\* none.
C37_LiveIsLastMove ==
  \A r \in Robots : active[r] => rpos[r] = LastRecorded(r)

\* a robot on its mission stands where none of its events has put it
C37_Unrecorded ==
  /\ active["r1"]
  /\ mission["r1"] # None
  /\ rpos["r1"] # LastRecorded("r1")

\* the waterReceived events on the plant's own tag
Received == { i \in 1..Len(plog) : plog[i].type = "waterReceived" }

\* the task of request q publishes waterReceived with this step
PublishesReceived(q) ==
  /\ task[q].pc = "following"
  /\ task'[q].pc = "received"
  /\ Len(plog') = Len(plog) + 1
  /\ plog'[Len(plog')].type = "waterReceived"

\* waterReceived has been published for request q by its task in this process
ReceivedFor(q) == task[q].pc \in {"received", "ended"}

\* C38: waterReceived is published for a request at most once and only after
\* its instance has folded to done, also when the plant is started again
\* between the completion of the instance and the publication, or after the
\* publication: every waterReceived on the plant's tag is published by the
\* task of a request whose instance it has seen done and for which it has
\* published none, and the tag, which outlives the process, never holds more
\* waterReceived events than there are instances done.
C38_ReceivedOncePerRequest ==
  /\ [](Cardinality(Received) <= Cardinality({ q \in Reqs : PlantFold(log[q]).name = "done" }))
  /\ [][ /\ Len(plog') > Len(plog) /\ plog'[Len(plog')].type = "waterReceived"
           => \E q \in Reqs : PublishesReceived(q)
         /\ \A q \in Reqs :
              PublishesReceived(q)
                => /\ PlantFold(Prefix(q, task'[q].seen)).name = "done"
                   /\ ~ReceivedFor(q) ]_vars

\* the plant was started between the completion of instance 1 and the
\* publication and has published since
C38_Witness ==
  /\ Len(plog) > Len(Unwatered(26000)) + 1
  /\ SubSeq(plog, 1, Len(Unwatered(26000))) = Unwatered(26000)
  /\ task[1].pc = "ended"
  /\ Cardinality(Received) = 1

\* the plant was started after the publication and has run for five seconds
C38_AfterWitness ==
  /\ Len(plog) > Len(Unwatered(26000))
  /\ plog[Len(Unwatered(26000)) + 1].type = "waterReceived"
  /\ plog[Len(Unwatered(26000)) + 1].time = 26000
  /\ ppc \in {"run", "sleep"}
  /\ now >= 35000

\* the created events on the own tag of the plant and of robot r
PlantCreated == { i \in 1..Len(plog) : plog[i].type = "created" }
RobotCreated(r) == { i \in 1..Len(rlog[r]) : rlog[r][i].type = "created" }

\* the plant process is started with this step
PlantStarts == ppc = "off" /\ ppc' = "run"

\* C39: however often the one process that owns an agent id is started again,
\* at most one created event is published for the id, it is published only
\* when the agent's history holds none, and the position the agent uses after
\* a start is that of the created event unless a later event has superseded
\* it (a robot's move events; the plant has none).
C39_CreatedOnce ==
  /\ [](/\ Cardinality(PlantCreated) <= 1
        /\ \A r \in Robots : Cardinality(RobotCreated(r)) <= 1)
  /\ [][ /\ Len(plog') > Len(plog) /\ plog'[Len(plog')].type = "created"
           => /\ PlantStarts
              /\ \A i \in 1..Len(plog) : plog[i].type \notin {"created", "died"}
         /\ \A r \in Robots :
              Len(rlog'[r]) > Len(rlog[r]) /\ rlog'[r][Len(rlog'[r])].type = "created"
                => RobotStarts(r) /\ RobotCreated(r) = {}
         /\ PlantStarts => /\ Cardinality(PlantCreated') = 1
                           /\ \A i \in PlantCreated' : position' = plog'[i].pos
         /\ \A r \in Robots :
              RobotStarts(r)
                => /\ Cardinality(RobotCreated(r)') = 1
                   /\ (\A i \in 1..Len(rlog[r]) : rlog[r][i].type # "move")
                        => \A i \in RobotCreated(r)' : rpos'[r] = rlog'[r][i].pos ]_vars

\* both agents have been started on a history that holds their created event,
\* the robot after it had accepted a mission
C39_Witness ==
  /\ ppc = "run"
  /\ Cardinality(PlantCreated) = 1
  /\ Len(plog) > 1
  /\ active["r1"]
  /\ mission["r1"] = None
  /\ \E i \in 1..Len(rlog["r1"]) : rlog["r1"][i].type = "mission"
  /\ rpos["r1"] = Pos(11, 0)

\* the plant was started on an empty history and has published created
C39_FreshWitness ==
  /\ plog = << [type |-> "created", pos |-> PlantStart, time |-> 0] >>
  /\ ppc = "run"
  /\ active["r1"]

====
